---- MODULE Spec2Model ----
(***************************************************************************)
(* Model of the cleaning-and-rating core of the absence rating engine:     *)
(* the day-duration calculator, the format validation and the three rules  *)
(* of the cleaning agents, the four nodes of the orchestrator and the two  *)
(* ways their return values are written back to the state, with the        *)
(* answers of the language model as inputs, and the aggregation, the tier  *)
(* classifier and the premium arithmetic of the rating agents.             *)
(*                                                                         *)
(* Numbers.  Every numeric cell and scalar of the program is a float.  The *)
(* model stores a number x as the integer x * One (fixed point), so 1.0 is *)
(* One, 0.5 is One \div 2, 7.5 is WorkdayHours and a rate of 0.15 is 9.    *)
(* Products and quotients are rescaled by FMul and FDiv; the inputs are    *)
(* drawn so that the program's values are represented exactly.             *)
(*                                                                         *)
(* Tables.  A DataFrame is a record [columns, rows]: the set of its column *)
(* names and the sequence of its rows, each row a function from the column *)
(* names to cells.  A cell is NA (NaN / None / NaT), a number, a text or a *)
(* timestamp.  A text is the sequence of its atoms: single characters      *)
(* where the program looks inside the text (School Year, Date), whole      *)
(* words elsewhere; the atom " " is white space.                           *)
(***************************************************************************)
EXTENDS Integers, Sequences, FiniteSets, TLC

VARIABLES
    input,          \* the table handed to the cleaning operation
    df,             \* the table the cleaning operation returned last
    trace,          \* names of the operations applied so far, in order
    teacher_days,   \* the aggregate table handed to the rating agents
    rating_inputs,  \* the caller's rating parameters
    call,           \* what else the last call was given
    results,        \* what the rating agent returned last
    filters,        \* the caller's row filters
    stats           \* the report the cleaning operation returned last

vars == <<input, df, trace, teacher_days, rating_inputs, call, results, filters, stats>>

----------------------------------------------------------------------------
(* Fixed point *)

\* fixed-point image of 1.0: the least scale that holds 0.5, 0.15 and
\* (0.5 hours) / 7.5 as integers
One == 4 * 15

FMul(a, b) == (a * b) \div One

FDiv(a, b) == (a * One) \div b

----------------------------------------------------------------------------
(* Cells, rows and tables *)

NA == [k |-> "na"]

Num(n) == [k |-> "num", v |-> n]

Str(s) == [k |-> "str", s |-> s]

Timestamp(ymd) == [k |-> "date", v |-> ymd]

\* pd.isna / pd.notna on a scalar
isna(c) == c.k = "na"

notna(c) == ~isna(c)

\* row.get(col): None when the row has no such column
Get(row, col) == IF col \in DOMAIN row THEN row[col] ELSE NA

SetCol_blanking(row, col, value) ==
    [c \in (DOMAIN row) \cup {col} |-> IF c = col THEN value ELSE NA]

\* df[col] = value, for one row
SetCol(row, col, value) ==
    [c \in (DOMAIN row) \cup {col} |-> IF c = col THEN value ELSE row[c]]

\* all the sequences over S of length at most n
SeqUpTo(S, n) == UNION {[1..m -> S] : m \in 0..n}

\* all the rows over a set of columns, each cell drawn from Cells[col]
RowsOver(cols, Cells) == {r \in [cols -> UNION {Cells[c] : c \in cols}] :
                             \A c \in cols : r[c] \in Cells[c]}

NoTable == [columns |-> {}, rows |-> <<>>]

----------------------------------------------------------------------------
(* Text *)

\* str.strip(): drop the leading and the trailing white space
RECURSIVE LStrip(_)
LStrip(s) == IF s # <<>> /\ Head(s) = " " THEN LStrip(Tail(s)) ELSE s

RECURSIVE RStrip(_)
RStrip(s) == IF s # <<>> /\ s[Len(s)] = " " THEN RStrip(SubSeq(s, 1, Len(s) - 1)) ELSE s

strip(s) == RStrip(LStrip(s))

\* str(value): the text of a text cell; a number prints as a numeral, which
\* is no absence-type code
str(c) == IF c.k = "str" THEN c.s ELSE <<"numeral">>

\* float(text) for the numerals the inputs use; -1 stands for ValueError
ParseFloat(s) ==
    CASE strip(s) = <<"7.5">>  -> (15 * One) \div 2
      [] strip(s) = <<"3.75">> -> (15 * One) \div 4
      [] OTHER                 -> -1

\* pd.to_numeric(value, errors='coerce') on a scalar
to_numeric(c) ==
    CASE c.k = "num" -> c
      [] c.k = "str" -> IF ParseFloat(c.s) >= 0 THEN Num(ParseFloat(c.s)) ELSE NA
      [] OTHER       -> NA

----------------------------------------------------------------------------
(* Day-duration calculator *)

\* the 7.5 of `hours / 7.5`
WorkdayHours == (15 * One) \div 2

calculate_days_half_as_full(row) ==
    IF isna(Get(row, "Absence Type")) THEN Num(0)
    ELSE LET abs_type == strip(str(row["Absence Type"])) IN
         CASE abs_type = <<"Full Day">> -> Num(One)
           [] abs_type \in {<<"AM Half Day">>, <<"PM Half Day">>} -> Num(One)
           [] abs_type = <<"Custom Duration">> ->
                IF "Duration" \in DOMAIN row
                THEN LET hours == to_numeric(row["Duration"]) IN
                     IF notna(hours) THEN Num(FDiv(hours.v, WorkdayHours)) ELSE Num(0)
                ELSE Num(0)
           [] OTHER -> Num(0)

\* calculate_days, the per-row closure of both calculate_absence_days
calculate_days(row) ==
    IF isna(Get(row, "Absence Type")) THEN Num(0)
    ELSE LET abs_type == strip(str(row["Absence Type"])) IN
         CASE abs_type = <<"Full Day">> -> Num(One)
           [] abs_type \in {<<"AM Half Day">>, <<"PM Half Day">>} -> Num(One \div 2)
           [] abs_type = <<"Custom Duration">> ->
                IF "Duration" \in DOMAIN row
                THEN LET hours == to_numeric(row["Duration"]) IN
                     IF notna(hours) THEN Num(FDiv(hours.v, WorkdayHours)) ELSE Num(0)
                ELSE Num(0)
           [] OTHER -> Num(0)

\* df['Absence_Days'] = df.apply(calculate_days, axis=1)
WithAbsenceDays(t) ==
    [columns |-> t.columns \cup {"Absence_Days"},
     rows    |-> [i \in 1..Len(t.rows) |->
                    SetCol(t.rows[i], "Absence_Days", calculate_days(t.rows[i]))]]

\* DataCleaningAgentLLM.calculate_absence_days
calculate_absence_days_llm(t) ==
    IF "Absence Type" \notin t.columns THEN t ELSE WithAbsenceDays(t)

\* DataCleaningAgent.calculate_absence_days
calculate_absence_days(t) ==
    IF "Absence_Days" \in t.columns THEN t ELSE WithAbsenceDays(t)

----------------------------------------------------------------------------
(* Specification SpecDays: the two day-duration calculators on bounded      *)
(* tables                                                                  *)

\* most rows of an input table
MaxRows == 2

\* most calls of a calculator on one table
MaxCalls == 2

AbsenceTypeCells ==
    {NA, Str(<<"Full Day">>), Str(<<"Full Day", " ">>), Str(<<"AM Half Day">>),
     Str(<<"PM Half Day">>), Str(<<"Custom Duration">>), Str(<<"Sick">>)}

\* 7.5 and 3 hours, a negative duration, a numeral, a text that is no number
DurationCells ==
    {NA, Num(WorkdayHours), Num(3 * One), Num(0 - WorkdayHours), Str(<<"7.5">>), Str(<<"n/a">>)}

\* a day value the input already carries: the hours of Duration taken as days
PriorDayCells == {Num(WorkdayHours)}

DaysCells ==
    [c \in {"Absence Type", "Duration", "Absence_Days"} |->
        CASE c = "Absence Type" -> AbsenceTypeCells
          [] c = "Duration"     -> DurationCells
          [] OTHER              -> PriorDayCells]

NoResults == [status |-> "none"]

NoInputs == [deductible |-> 0]

NoCall == [passed |-> "none"]

\* filters = {}
NoFilters == <<>>

NoStats == [status |-> "none"]

InitDays ==
    /\ \E cols \in SUBSET {"Absence Type", "Duration", "Absence_Days"} :
          \E m \in 0..MaxRows :
              \E rs \in [1..m -> RowsOver(cols, DaysCells)] :
                  input = [columns |-> cols, rows |-> rs]
    /\ df = input
    /\ trace = <<>>
    /\ teacher_days = NoTable
    /\ rating_inputs = NoInputs
    /\ call = NoCall
    /\ results = NoResults
    /\ filters = NoFilters
    /\ stats = NoStats

CalculateAbsenceDaysLLM ==
    /\ Len(trace) < MaxCalls
    /\ df' = calculate_absence_days_llm(df)
    /\ trace' = Append(trace, "llm")
    /\ UNCHANGED <<input, teacher_days, rating_inputs, call, results, filters, stats>>

CalculateAbsenceDays ==
    /\ Len(trace) < MaxCalls
    /\ df' = calculate_absence_days(df)
    /\ trace' = Append(trace, "plain")
    /\ UNCHANGED <<input, teacher_days, rating_inputs, call, results, filters, stats>>

NextDays == CalculateAbsenceDaysLLM \/ CalculateAbsenceDays

SpecDays == InitDays /\ [][NextDays]_vars

----------------------------------------------------------------------------
(* Period-consistency rule *)

Digits == {"0", "1", "2", "3", "4", "5", "6", "7", "8", "9"}

DigitValue(d) ==
    CASE d = "0" -> 0 [] d = "1" -> 1 [] d = "2" -> 2 [] d = "3" -> 3 [] d = "4" -> 4
      [] d = "5" -> 5 [] d = "6" -> 6 [] d = "7" -> 7 [] d = "8" -> 8 [] OTHER -> 9

\* str.split(sep): the parts of s between the occurrences of sep
RECURSIVE split(_, _)
split(s, sep) ==
    IF \A i \in 1..Len(s) : s[i] # sep THEN <<s>>
    ELSE LET i == CHOOSE j \in 1..Len(s) : s[j] = sep /\ \A m \in 1..(j - 1) : s[m] # sep
         IN  <<SubSeq(s, 1, i - 1)>> \o split(SubSeq(s, i + 1, Len(s)), sep)

\* what int() and the date parsers return for a text that is no number
ValueError == -1

RECURSIVE DecimalValue(_)
DecimalValue(s) ==
    IF s = <<>> THEN 0 ELSE 10 * DecimalValue(SubSeq(s, 1, Len(s) - 1)) + DigitValue(s[Len(s)])

\* int(text): white space around the digits is allowed, leading zeros too
int(s) ==
    LET q == strip(s) IN
    IF q # <<>> /\ \A i \in 1..Len(q) : q[i] \in Digits THEN DecimalValue(q) ELSE ValueError

\* datetime accepts the years 1..9999; a nanosecond Timestamp holds
\* 1677-09-21 .. 2262-04-11, so July 1 and June 30 fit for 1678..2261.
\* Outside the nanosecond range the constructor raises OutOfBoundsDatetime (a
\* ValueError) where Timestamp is nanosecond-only, and builds the date where
\* it keeps coarser units: ns_only tells which pandas is installed.
TimestampOK(year, ns_only) ==
    /\ year >= 1
    /\ year <= 9999
    /\ ns_only => (year >= 1678 /\ year <= 2261)

NoRange == [ok |-> FALSE]

\* get_school_year_range: a date d is the number 10000*year + 100*month + day
get_school_year_range(school_year, ns_only) ==
    LET parts == split(str(school_year), "-") IN
    IF Len(parts) = 2
    THEN LET start_year == int(parts[1])
             end_year   == int(parts[2])
         IN  IF \/ start_year = ValueError
                \/ end_year = ValueError
                \/ ~TimestampOK(start_year, ns_only)
                \/ ~TimestampOK(end_year, ns_only)
             THEN NoRange
             ELSE [ok |-> TRUE, start_date |-> start_year * 10000 + 701,
                                end_date   |-> end_year * 10000 + 630]
    ELSE NoRange

DaysInMonth(y, m) ==
    CASE m \in {4, 6, 9, 11} -> 30
      [] m = 2 -> IF (y % 4 = 0 /\ y % 100 # 0) \/ y % 400 = 0 THEN 29 ELSE 28
      [] OTHER -> 31

\* pd.to_datetime on a scalar: an ISO text 'YYYY-MM-DD' or a Timestamp gives a
\* Timestamp, a number counts nanoseconds from 1970-01-01, any other text
\* raises (NA here)
to_datetime(c) ==
    CASE c.k = "date" -> c
      [] c.k = "num"  -> Timestamp(19700101)
      [] c.k = "str"  ->
            LET parts == split(strip(c.s), "-") IN
            IF Len(parts) # 3 THEN NA
            ELSE LET y == int(parts[1])
                     m == int(parts[2])
                     d == int(parts[3])
                 IN  IF /\ y >= 1678 /\ y <= 2261
                        /\ m >= 1 /\ m <= 12
                        /\ d >= 1 /\ d <= DaysInMonth(y, m)
                     THEN Timestamp(y * 10000 + m * 100 + d)
                     ELSE NA
      [] OTHER -> NA

within_open_end(start_date, date, end_date) == start_date <= date /\ date < end_date

\* start_date <= date <= end_date
within(start_date, date, end_date) == start_date <= date /\ date <= end_date

\* valid_mask[idx] of one row, as the loop of apply_rule3 leaves it
valid_mask(row, ns_only) ==
    LET school_year == Get(row, "School Year")
        date        == Get(row, "Date")
    IN  IF isna(school_year) \/ isna(date) THEN TRUE
        ELSE LET range == get_school_year_range(school_year, ns_only) IN
             IF ~range.ok THEN TRUE
             ELSE LET ts == IF date.k = "date" THEN date ELSE to_datetime(date) IN
                  IF isna(ts) THEN FALSE
                  ELSE within(range.start_date, ts.v, range.end_date)

\* DataCleaningAgentLLM.apply_rule3
apply_rule3(t, should_apply, ns_only) ==
    IF ~should_apply THEN t
    ELSE IF "School Year" \notin t.columns \/ "Date" \notin t.columns THEN t
    ELSE LET keep(row) == valid_mask(row, ns_only)
         IN  [t EXCEPT !.rows = SelectSeq(t.rows, keep)]

----------------------------------------------------------------------------
(* Specification SpecPeriod: step 4 of DataCleaningAgentLLM.process on      *)
(* bounded tables.  The Date column comes from validate_data_format, which *)
(* has made it a datetime column and dropped the rows without a date.      *)

Y2020 == <<"2", "0", "2", "0">>

Y2021 == <<"2", "0", "2", "1">>

Y2022 == <<"2", "0", "2", "2">>

\* 'start-end'
SchoolYearText(start, end) == Str(start \o <<"-">> \o end)

\* well formed, and malformed: missing, one part, three parts, a part that is
\* no number, two-digit years, five-digit years, years written with five
\* characters
SchoolYearCells ==
    {SchoolYearText(Y2021, Y2022),
     NA,
     Str(Y2021),
     Str(Y2020 \o <<"-">> \o Y2021 \o <<"-">> \o Y2022),
     SchoolYearText(Y2021, <<"n", "e", "x", "t">>),
     SchoolYearText(<<"2", "1">>, <<"2", "2">>),
     SchoolYearText(Y2021 \o <<"1">>, Y2022 \o <<"2">>),
     SchoolYearText(<<"0">> \o Y2021, <<"0">> \o Y2022)}

DateCells ==
    {Timestamp(20210630), Timestamp(20210701), Timestamp(20211115),
     Timestamp(20220630), Timestamp(20220701)}

PeriodCells ==
    [c \in {"School Year", "Date"} |->
        IF c = "School Year" THEN SchoolYearCells ELSE DateCells]

InitPeriod ==
    /\ \E cols \in SUBSET {"School Year", "Date"} :
          \E m \in 0..MaxRows :
              \E rs \in [1..m -> RowsOver(cols, PeriodCells)] :
                  input = [columns |-> cols, rows |-> rs]
    /\ df = input
    /\ trace = <<>>
    /\ teacher_days = NoTable
    /\ rating_inputs = NoInputs
    /\ call = NoCall
    /\ results = NoResults
    /\ filters = NoFilters
    /\ stats = NoStats

\* process, step 4: the suggested toggle is overridden whenever the table has
\* both columns
ApplyRule3 ==
    /\ trace = <<>>
    /\ \E suggested \in BOOLEAN, ns_only \in BOOLEAN :
          LET should_validate_dates ==
                  IF "School Year" \in df.columns /\ "Date" \in df.columns
                  THEN TRUE ELSE suggested
          IN  df' = apply_rule3(df, should_validate_dates, ns_only)
    /\ trace' = Append(trace, "rule3")
    /\ UNCHANGED <<input, teacher_days, rating_inputs, call, results, filters, stats>>

NextPeriod == ApplyRule3

SpecPeriod == InitPeriod /\ [][NextPeriod]_vars

----------------------------------------------------------------------------
(* Aggregation *)

\* the order of sort_values / groupby on texts: atom by atom, an atom by its
\* place in Alphabet
Alphabet == <<" ", "-", "0", "1", "2", "3", "4", "5", "6", "7", "8", "9",
              "E1", "E2", "E3", "Teacher_A", "Teacher_B", "Teacher_C", "Teacher_D">>

AtomRank(a) == CHOOSE i \in 1..Len(Alphabet) : Alphabet[i] = a

RECURSIVE TextLess(_, _)
TextLess(s, t) ==
    IF t = <<>> THEN FALSE
    ELSE IF s = <<>> THEN TRUE
    ELSE IF Head(s) = Head(t) THEN TextLess(Tail(s), Tail(t))
    ELSE AtomRank(Head(s)) < AtomRank(Head(t))

\* the strict order of group keys <<School Year, Employee Identifier>>
KeyLess(a, b) ==
    \/ TextLess(a[1].s, b[1].s)
    \/ a[1] = b[1] /\ TextLess(a[2].s, b[2].s)

\* the keys of S in ascending order
SortedKeys(S) ==
    CHOOSE q \in [1..Cardinality(S) -> S] :
        \A i, j \in 1..Cardinality(S) : i < j => KeyLess(q[i], q[j])

RECURSIVE SumSeq(_)
SumSeq(q) == IF q = <<>> THEN 0 ELSE Head(q) + SumSeq(Tail(q))

\* Series.sum() of one column over a sequence of rows, NaN skipped
ColumnSum(rows, col) ==
    LET chosen == SelectSeq(rows, LAMBDA r : notna(r[col]))
    IN  SumSeq([i \in 1..Len(chosen) |-> chosen[i][col].v])

\* df.groupby(['School Year', 'Employee Identifier'])['Absence_Days'].sum()
\* .reset_index(), the columns renamed: rows with a missing key are left out
groupby_school_year_employee(t) ==
    LET keyed == {i \in 1..Len(t.rows) :
                     notna(t.rows[i]["School Year"]) /\ notna(t.rows[i]["Employee Identifier"])}
        keys  == {<<t.rows[i]["School Year"], t.rows[i]["Employee Identifier"]>> : i \in keyed}
        order == SortedKeys(keys)
    IN  [columns |-> {"School Year", "Employee Identifier", "Total_Days"},
         rows    |-> [n \in 1..Len(order) |->
                        LET key == order[n]
                            mine(r) == r["School Year"] = key[1] /\ r["Employee Identifier"] = key[2]
                        IN  [c \in {"School Year", "Employee Identifier", "Total_Days"} |->
                               CASE c = "School Year"         -> key[1]
                                 [] c = "Employee Identifier" -> key[2]
                                 [] OTHER -> Num(ColumnSum(SelectSeq(t.rows, mine), "Absence_Days"))]]]

total_days_per_teacher_one_year(td) ==
    LET employees == {td.rows[i]["Employee Identifier"] : i \in
                         {j \in 1..Len(td.rows) : notna(td.rows[j]["Employee Identifier"])}}
    IN  [e \in employees |->
            LET mine(r) == r["Employee Identifier"] = e
            IN  SelectSeq(td.rows, mine)[1]["Total_Days"].v]

\* teacher_days.groupby('Employee Identifier')['Total_Days'].sum(): a Series,
\* here a function from the employees to their totals
total_days_per_teacher_of(td) ==
    LET employees == {td.rows[i]["Employee Identifier"] : i \in
                         {j \in 1..Len(td.rows) : notna(td.rows[j]["Employee Identifier"])}}
    IN  [e \in employees |->
            LET mine(r) == r["Employee Identifier"] = e
            IN  ColumnSum(SelectSeq(td.rows, mine), "Total_Days")]

\* Series.sum() of a Series held as a function
RECURSIVE SeriesSum(_)
SeriesSum(f) ==
    IF DOMAIN f = {} THEN 0
    ELSE LET x == CHOOSE x \in DOMAIN f : TRUE
         IN  f[x] + SeriesSum([y \in (DOMAIN f) \ {x} |-> f[y]])

\* series[mask]
Restrict(f, mask) == [x \in {y \in DOMAIN f : mask[y]} |-> f[x]]

min_as_max(a, b) == IF a <= b THEN b ELSE a

min(a, b) == IF a <= b THEN a ELSE b

----------------------------------------------------------------------------
(* Rating: the language model's answer *)

\* a calculation approach: a dict, whose 'excess_days_calculation' may be
\* unset, or a JSON value that is no dict
Approach(excess) == [type |-> "dict", excess_days_calculation |-> excess]

NotADict == [type |-> "other"]

NoApproach == [type |-> "none"]

DefaultApproach == Approach("excess_only")

Raised == [status |-> "error"]

\* reason_about_calculations: the reasoning dict, or Raised when the call to
\* the model raises or its JSON value is no object
reason_about_calculations(llm_response) ==
    CASE llm_response.kind = "raise" -> Raised
      [] llm_response.kind = "text"  -> [status |-> "ok", recommended_approach |-> DefaultApproach]
      [] OTHER ->
            IF ~llm_response.object THEN Raised
            ELSE IF ~llm_response.has_approach
                 THEN [status |-> "ok", recommended_approach |-> DefaultApproach]
                 ELSE [status |-> "ok", recommended_approach |-> llm_response.recommended_approach]

fixed_approach_not_forced(calculation_approach) == calculation_approach

\* calculation_approach["excess_days_calculation"] = "excess_only"
fixed_approach(calculation_approach) ==
    [calculation_approach EXCEPT !.excess_days_calculation = "excess_only"]

----------------------------------------------------------------------------
(* Rating: RatingEngineAgentLLM *)

\* int(x): truncation toward zero
Trunc(x) == IF x >= 0 THEN (x \div One) * One ELSE 0 - (((0 - x) \div One) * One)

\* Series.nunique(): the distinct values of a column, NaN not counted
nunique(rows, col) ==
    Cardinality({rows[i][col] : i \in {j \in 1..Len(rows) : notna(rows[j][col])}})

per_school_year_metrics_of(cleaned_data, replacement_cost) ==
    IF "School Year" \notin cleaned_data.columns THEN <<>>
    ELSE LET years == {cleaned_data.rows[i]["School Year"] : i \in
                          {j \in 1..Len(cleaned_data.rows) :
                              notna(cleaned_data.rows[j]["School Year"])}}
         IN  [school_year \in years |->
                LET sy_data(r) == r["School Year"] = school_year
                    total_absences ==
                        IF "Absence_Days" \in cleaned_data.columns
                        THEN ColumnSum(SelectSeq(cleaned_data.rows, sy_data), "Absence_Days")
                        ELSE One * Len(SelectSeq(cleaned_data.rows, sy_data))
                IN  [total_staff |->
                        IF "Employee Identifier" \in cleaned_data.columns
                        THEN nunique(SelectSeq(cleaned_data.rows, sy_data), "Employee Identifier") ELSE 0,
                     total_absences |-> total_absences,
                     total_replacement_cost |-> FMul(total_absences, replacement_cost)]]

in_cc_range_open_top(days, deductible, cc_maximum) == days > deductible /\ days < cc_maximum

\* (total_days_per_teacher > deductible) & (total_days_per_teacher <= cc_maximum)
in_cc_range(days, deductible, cc_maximum) == days > deductible /\ days <= cc_maximum

days_in_range_uncapped_from_zero(days, deductible, cc_maximum) == days

\* min(days - deductible, cc_maximum - deductible)
days_in_range_of(days, deductible, cc_maximum) == min(days - deductible, cc_maximum - deductible)

premium_with_excess(replacement_cost_cc, ark_commission, abcover_commission, high_claimant_cost) ==
    replacement_cost_cc + ark_commission + abcover_commission + high_claimant_cost

\* total_premium = replacement_cost_cc + ark_commission + abcover_commission
premium_of(replacement_cost_cc, ark_commission, abcover_commission, high_claimant_cost) ==
    replacement_cost_cc + ark_commission + abcover_commission

\* RatingEngineAgentLLM.calculate_with_reasoning; passed is the caller's
\* calculation_approach (NoApproach for None)
calculate_with_reasoning(td, cleaned_data, inputs, passed, llm_response) ==
    LET reasoning == IF passed = NoApproach
                     THEN reason_about_calculations(llm_response)
                     ELSE [status |-> "ok", recommended_approach |-> passed]
    IN
    IF reasoning.status # "ok" THEN Raised
    ELSE IF reasoning.recommended_approach.type # "dict" THEN Raised
    ELSE
    LET calculation_approach == fixed_approach(reasoning.recommended_approach)
        deductible       == inputs.deductible
        cc_days          == inputs.cc_days
        replacement_cost == inputs.replacement_cost
        overall_total_absences ==
            IF "Absence_Days" \in cleaned_data.columns
            THEN ColumnSum(cleaned_data.rows, "Absence_Days")
            ELSE One * Len(cleaned_data.rows)
        cc_maximum == deductible + cc_days
        total_days_per_teacher == total_days_per_teacher_of(td)
        staff_in_cc_range ==
            Restrict(total_days_per_teacher,
                     [e \in DOMAIN total_days_per_teacher |->
                         in_cc_range(total_days_per_teacher[e], deductible, cc_maximum)])
        cc_range_details ==
            [e \in {x \in DOMAIN staff_in_cc_range : staff_in_cc_range[x] > deductible} |->
                [total_days       |-> staff_in_cc_range[e],
                 days_in_cc_range |-> days_in_range_of(staff_in_cc_range[e], deductible, cc_maximum)]]
        total_cc_days ==
            SeriesSum([e \in DOMAIN cc_range_details |-> cc_range_details[e].days_in_cc_range])
        replacement_cost_cc == FMul(replacement_cost, total_cc_days)
        high_claimant_staff == Restrict(total_days_per_teacher,
                     [e \in DOMAIN total_days_per_teacher |-> total_days_per_teacher[e] > cc_maximum])
        all_days == calculation_approach.excess_days_calculation = "all_days"
        excess_days ==
            IF all_days THEN SeriesSum(high_claimant_staff)
            ELSE SeriesSum([e \in DOMAIN high_claimant_staff |-> high_claimant_staff[e] - cc_maximum])
        high_claimant_details ==
            [e \in DOMAIN high_claimant_staff |->
                [total_days  |-> high_claimant_staff[e],
                 excess_days |-> IF all_days THEN high_claimant_staff[e]
                                 ELSE high_claimant_staff[e] - cc_maximum]]
        high_claimant_cost == FMul(replacement_cost, excess_days)
        ark_commission     == FMul(replacement_cost_cc, inputs.ark_commission_rate)
        abcover_commission == FMul(replacement_cost_cc, inputs.abcover_commission_rate)
    IN  [status |-> "ok",
         per_school_year_metrics |-> per_school_year_metrics_of(cleaned_data, replacement_cost),
         overall_total_staff |->
            IF "Employee Identifier" \in cleaned_data.columns
            THEN nunique(cleaned_data.rows, "Employee Identifier") ELSE 0,
         overall_total_absences |-> Trunc(overall_total_absences),
         overall_total_replacement_cost |-> FMul(overall_total_absences, replacement_cost),
         num_staff_cc_range  |-> Cardinality(DOMAIN staff_in_cc_range),
         total_cc_days       |-> total_cc_days,
         replacement_cost_cc |-> replacement_cost_cc,
         cc_range_details    |-> cc_range_details,
         num_high_claimant   |-> Cardinality(DOMAIN high_claimant_staff),
         excess_days         |-> excess_days,
         high_claimant_cost  |-> high_claimant_cost,
         high_claimant_details |-> high_claimant_details,
         ark_commission      |-> ark_commission,
         abcover_commission  |-> abcover_commission,
         total_premium       |-> premium_of(replacement_cost_cc, ark_commission,
                                            abcover_commission, high_claimant_cost),
         deductible          |-> deductible,
         cc_days             |-> cc_days,
         cc_maximum          |-> cc_maximum,
         replacement_cost    |-> replacement_cost,
         calculation_approach |-> calculation_approach,
         total_teachers      |-> Cardinality(DOMAIN total_days_per_teacher),
         below_deductible_count |->
            Cardinality(DOMAIN Restrict(total_days_per_teacher,
                     [e \in DOMAIN total_days_per_teacher |-> total_days_per_teacher[e] <= deductible]))]

----------------------------------------------------------------------------
(* Rating: RatingEngineAgent *)

\* what process returns from its except branch: ({}, message)
Failed == [status |-> "failed"]

\* RatingEngineAgent.calculate_coverage_metrics
calculate_coverage_metrics(td, deductible, cc_days, replacement_cost) ==
    LET total_days_per_teacher == total_days_per_teacher_of(td)
        cc_maximum == deductible + cc_days
        staff_in_cc_range ==
            Restrict(total_days_per_teacher,
                     [e \in DOMAIN total_days_per_teacher |->
                         total_days_per_teacher[e] > deductible
                             /\ total_days_per_teacher[e] <= cc_maximum])
        total_cc_days == SeriesSum(staff_in_cc_range)
        replacement_cost_cc == FMul(replacement_cost, total_cc_days)
        high_claimant_staff == Restrict(total_days_per_teacher,
                     [e \in DOMAIN total_days_per_teacher |-> total_days_per_teacher[e] > cc_maximum])
        excess_days ==
            SeriesSum([e \in DOMAIN high_claimant_staff |-> high_claimant_staff[e] - cc_maximum])
    IN  [num_staff_cc_range  |-> Cardinality(DOMAIN staff_in_cc_range),
         total_cc_days       |-> total_cc_days,
         replacement_cost_cc |-> replacement_cost_cc,
         num_high_claimant   |-> Cardinality(DOMAIN high_claimant_staff),
         excess_days         |-> excess_days,
         high_claimant_cost  |-> FMul(replacement_cost, excess_days),
         deductible          |-> deductible,
         cc_days             |-> cc_days,
         cc_maximum          |-> cc_maximum,
         replacement_cost    |-> replacement_cost]

\* RatingEngineAgent.calculate_premium
calculate_premium(replacement_cost_cc, ark_commission_rate, abcover_commission_rate) ==
    LET ark_commission     == FMul(replacement_cost_cc, ark_commission_rate)
        abcover_commission == FMul(replacement_cost_cc, abcover_commission_rate)
    IN  [replacement_cost_cc |-> replacement_cost_cc,
         ark_commission      |-> ark_commission,
         abcover_commission  |-> abcover_commission,
         total_premium       |-> replacement_cost_cc + ark_commission + abcover_commission]

\* RatingEngineAgent.process: calculate_teacher_absence_days raises without
\* an Absence_Days column, the grouping raises without a key column
rating_process(t, inputs) ==
    IF ~({"School Year", "Employee Identifier", "Absence_Days"} \subseteq t.columns) THEN Failed
    ELSE LET td == groupby_school_year_employee(t)
             coverage_metrics == calculate_coverage_metrics(
                 td, inputs.deductible, inputs.cc_days, inputs.replacement_cost)
             premium_metrics == calculate_premium(
                 coverage_metrics.replacement_cost_cc,
                 inputs.ark_commission_rate, inputs.abcover_commission_rate)
         IN  [status              |-> "ok",
              num_staff_cc_range  |-> coverage_metrics.num_staff_cc_range,
              total_cc_days       |-> coverage_metrics.total_cc_days,
              replacement_cost_cc |-> premium_metrics.replacement_cost_cc,
              num_high_claimant   |-> coverage_metrics.num_high_claimant,
              excess_days         |-> coverage_metrics.excess_days,
              high_claimant_cost  |-> coverage_metrics.high_claimant_cost,
              deductible          |-> coverage_metrics.deductible,
              cc_days             |-> coverage_metrics.cc_days,
              cc_maximum          |-> coverage_metrics.cc_maximum,
              replacement_cost    |-> coverage_metrics.replacement_cost,
              ark_commission      |-> premium_metrics.ark_commission,
              abcover_commission  |-> premium_metrics.abcover_commission,
              total_premium       |-> premium_metrics.total_premium]

----------------------------------------------------------------------------
(* Specification SpecRate: aggregation and the two rating agents on bounded *)
(* cleaned tables, and on the hand-computed answer key                     *)

\* most rows of a cleaned table
MaxCleanedRows == 2

SY_2020_2021 == SchoolYearText(Y2020, Y2021)

SY_2021_2022 == SchoolYearText(Y2021, Y2022)

Employee(name) == Str(<<name>>)

\* a day and a half, two days
AbsenceDayCells == {Num(One + One \div 2), Num(2 * One)}

CleanedCells ==
    [c \in {"School Year", "Employee Identifier", "Absence_Days"} |->
        CASE c = "School Year"         -> {SY_2020_2021, SY_2021_2022}
          [] c = "Employee Identifier" -> {Employee("E1"), Employee("E2")}
          [] OTHER                     -> AbsenceDayCells]

CleanedRow(school_year, employee, days) ==
    [c \in {"School Year", "Employee Identifier", "Absence_Days"} |->
        CASE c = "School Year"         -> school_year
          [] c = "Employee Identifier" -> employee
          [] OTHER                     -> Num(days)]

\* validate_calculations.py and check_calculation_correct.py: four teachers
\* of one school year with 15, 50, 75 and 100 days
AnswerKeyTable ==
    [columns |-> {"School Year", "Employee Identifier", "Absence_Days"},
     rows    |-> <<CleanedRow(SY_2020_2021, Employee("Teacher_A"), 15 * One),
                   CleanedRow(SY_2020_2021, Employee("Teacher_B"), 50 * One),
                   CleanedRow(SY_2020_2021, Employee("Teacher_C"), 75 * One),
                   CleanedRow(SY_2020_2021, Employee("Teacher_D"), 100 * One)>>]

CleanedTables ==
    {[columns |-> {"School Year", "Employee Identifier", "Absence_Days"}, rows |-> rs] :
        rs \in SeqUpTo(RowsOver({"School Year", "Employee Identifier", "Absence_Days"},
                                CleanedCells), MaxCleanedRows)}
    \cup {AnswerKeyTable}

Inputs(deductible, cc_days, replacement_cost, ark, abcover) ==
    [deductible |-> deductible * One, cc_days |-> cc_days * One,
     replacement_cost |-> replacement_cost * One,
     ark_commission_rate |-> ark, abcover_commission_rate |-> abcover]

\* a rate of 0.15
Rate15 == (15 * One) \div 100

\* deductible 20, cc_days 60, $150 a day, both commissions 15%
AnswerKeyInputs == Inputs(20, 60, 150, Rate15, Rate15)

RatingInputs ==
    {Inputs(d, c, 100, Rate15, One \div 2) : d \in 0..2, c \in 0..2}
    \cup {Inputs(1, 1, 150, 0, One), AnswerKeyInputs}

CallerApproaches == {Approach("all_days"), Approach("excess_only"), Approach("unset")}

LLMResponses ==
    {[kind |-> "raise"], [kind |-> "text"],
     [kind |-> "json", object |-> FALSE],
     [kind |-> "json", object |-> TRUE, has_approach |-> FALSE]}
    \cup {[kind |-> "json", object |-> TRUE, has_approach |-> TRUE, recommended_approach |-> a] :
             a \in CallerApproaches \cup {NotADict}}

InitRate ==
    /\ input \in CleanedTables
    /\ df = input
    /\ trace = <<>>
    /\ teacher_days = NoTable
    /\ rating_inputs \in RatingInputs
    /\ call = NoCall
    /\ results = NoResults
    /\ filters = NoFilters
    /\ stats = NoStats

\* teacher_days = df.groupby([...])['Absence_Days'].sum().reset_index()
AggregateTeacherDays ==
    /\ trace = <<>>
    /\ teacher_days' = groupby_school_year_employee(df)
    /\ trace' = <<"aggregate">>
    /\ UNCHANGED <<input, df, rating_inputs, call, results, filters, stats>>

\* RatingEngineAgentLLM.process: calculation_approach is None
Process ==
    /\ trace = <<"aggregate">>
    /\ \E llm_response \in LLMResponses :
          /\ call' = [passed |-> NoApproach, llm_response |-> llm_response]
          /\ results' = calculate_with_reasoning(teacher_days, df, rating_inputs,
                                                 NoApproach, llm_response)
    /\ trace' = Append(trace, "process")
    /\ UNCHANGED <<input, df, teacher_days, rating_inputs, filters, stats>>

\* RatingEngineAgentLLM.calculate_with_reasoning with the caller's approach
CalculateWithReasoning ==
    /\ trace = <<"aggregate">>
    /\ \E passed \in CallerApproaches :
          /\ call' = [passed |-> passed, llm_response |-> [kind |-> "raise"]]
          /\ results' = calculate_with_reasoning(teacher_days, df, rating_inputs,
                                                 passed, [kind |-> "raise"])
    /\ trace' = Append(trace, "calculate_with_reasoning")
    /\ UNCHANGED <<input, df, teacher_days, rating_inputs, filters, stats>>

\* RatingEngineAgent.process
RatingProcess ==
    /\ trace = <<"aggregate">>
    /\ call' = NoCall
    /\ results' = rating_process(df, rating_inputs)
    /\ trace' = Append(trace, "rating_process")
    /\ UNCHANGED <<input, df, teacher_days, rating_inputs, filters, stats>>

NextRate == AggregateTeacherDays \/ Process \/ CalculateWithReasoning \/ RatingProcess

SpecRate == InitRate /\ [][NextRate]_vars

----------------------------------------------------------------------------
(* Specification SpecKeys: aggregation and the two rating agents on cleaned *)
(* tables whose rows may lack a School Year or an Employee Identifier,     *)
(* which validate_data_format keeps                                        *)

\* a day and a half of E1 or E2 in either school year; two days of E1 or of
\* nobody, in 2020-2021 or in no school year
KeyedRows ==
    {CleanedRow(school_year, employee, One + One \div 2) :
        school_year \in {SY_2020_2021, SY_2021_2022},
        employee \in {Employee("E1"), Employee("E2")}}
    \cup {CleanedRow(school_year, employee, 2 * One) :
        school_year \in {SY_2020_2021, NA}, employee \in {Employee("E1"), NA}}

InitKeys ==
    /\ \E m \in 0..MaxCleanedRows :
          \E rs \in [1..m -> KeyedRows] :
              input = [columns |-> {"School Year", "Employee Identifier", "Absence_Days"},
                       rows    |-> rs]
    /\ df = input
    /\ trace = <<>>
    /\ teacher_days = NoTable
    /\ rating_inputs \in {Inputs(1, 2, 100, Rate15, One \div 2)}
    /\ call = NoCall
    /\ results = NoResults
    /\ filters = NoFilters
    /\ stats = NoStats

SpecKeys == InitKeys /\ [][NextRate]_vars

----------------------------------------------------------------------------
(* Specification SpecParams: the two rating agents on rating parameters    *)
(* outside their documented bounds                                         *)

\* a negative deductible, negative cc_days, a negative replacement cost, a
\* commission rate below 0 and one above 1
OutOfBoundInputs ==
    {Inputs(0 - 1, 1, 100, Rate15, Rate15),
     Inputs(1, 0 - 1, 100, Rate15, Rate15),
     Inputs(1, 1, 0 - 100, Rate15, Rate15),
     Inputs(1, 1, 100, 0 - Rate15, Rate15),
     Inputs(1, 1, 100, Rate15, One + Rate15)}

InitParams ==
    /\ input \in CleanedTables
    /\ df = input
    /\ trace = <<>>
    /\ teacher_days = NoTable
    /\ rating_inputs \in OutOfBoundInputs
    /\ call = NoCall
    /\ results = NoResults
    /\ filters = NoFilters
    /\ stats = NoStats

SpecParams == InitParams /\ [][NextRate]_vars

----------------------------------------------------------------------------
(* Cleaning: the substitute-need rule and the category rule *)

\* a text cell of one word
Word(w) == Str(<<w>>)

rule1_mask_either(row) ==
    ~(row["Filled"] = Word("Unfilled") \/ row["Needs Substitute"] = Word("NO"))

\* mask = ~((df['Filled'] == 'Unfilled') & (df['Needs Substitute'] == 'NO'))
rule1_mask(row) ==
    ~(row["Filled"] = Word("Unfilled") /\ row["Needs Substitute"] = Word("NO"))

\* DataCleaningAgent.apply_rule1
apply_rule1(t) ==
    IF "Filled" \in t.columns /\ "Needs Substitute" \in t.columns
    THEN [t EXCEPT !.rows = SelectSeq(t.rows, rule1_mask)]
    ELSE t

\* DataCleaningAgentLLM.apply_rule1
apply_rule1_llm(t, should_apply) ==
    IF ~should_apply THEN t ELSE apply_rule1(t)

\* Series.isin(values): a missing cell is in no list
isin(c, values) == c.k = "str" /\ \E i \in 1..Len(values) : c = Word(values[i])

apply_rule2_llm_unless_single(t, employee_types_to_keep) ==
    IF "Employee Type" \in t.columns /\ employee_types_to_keep # <<>> /\ Len(t.rows) > 1
    THEN LET keep(row) == isin(row["Employee Type"], employee_types_to_keep)
         IN  [t EXCEPT !.rows = SelectSeq(t.rows, keep)]
    ELSE t

\* DataCleaningAgentLLM.apply_rule2: an empty list is falsy
apply_rule2_llm(t, employee_types_to_keep) ==
    IF "Employee Type" \in t.columns /\ employee_types_to_keep # <<>>
    THEN LET keep(row) == isin(row["Employee Type"], employee_types_to_keep)
         IN  [t EXCEPT !.rows = SelectSeq(t.rows, keep)]
    ELSE t

\* self.teacher_types
teacher_types == <<"Teacher", "Teacher Music", "Teacher SpecEd">>

\* DataCleaningAgent.apply_rule2
apply_rule2(t) ==
    IF "Employee Type" \in t.columns
    THEN LET keep(row) == isin(row["Employee Type"], teacher_types)
         IN  [t EXCEPT !.rows = SelectSeq(t.rows, keep)]
    ELSE t

----------------------------------------------------------------------------
(* Specification SpecRules: the substitute-need rule and the category rule *)
(* of both cleaning agents, each called on bounded tables                  *)

FilledCells == {NA, Word("Filled"), Word("Unfilled")}

NeedsSubstituteCells == {NA, Word("YES"), Word("NO")}

EmployeeTypeCells == {NA, Word("Teacher"), Word("Custodian")}

RuleCells ==
    [c \in {"Filled", "Needs Substitute", "Employee Type"} |->
        CASE c = "Filled"           -> FilledCells
          [] c = "Needs Substitute" -> NeedsSubstituteCells
          [] OTHER                  -> EmployeeTypeCells]

\* allow-lists: empty, one type, another type, the default of the agents
AllowLists == {<<>>, <<"Teacher">>, <<"Custodian">>, teacher_types}

InitRules ==
    /\ \E cols \in SUBSET {"Filled", "Needs Substitute", "Employee Type"} :
          \E m \in 0..MaxRows :
              \E rs \in [1..m -> RowsOver(cols, RuleCells)] :
                  input = [columns |-> cols, rows |-> rs]
    /\ df = input
    /\ trace = <<>>
    /\ teacher_days = NoTable
    /\ rating_inputs = NoInputs
    /\ call = NoCall
    /\ results = NoResults
    /\ filters = NoFilters
    /\ stats = NoStats

ApplyRule1LLM ==
    /\ trace = <<>>
    /\ \E should_apply \in BOOLEAN :
          /\ call' = [should_apply |-> should_apply]
          /\ df' = apply_rule1_llm(df, should_apply)
    /\ trace' = <<"rule1_llm">>
    /\ UNCHANGED <<input, teacher_days, rating_inputs, results, filters, stats>>

ApplyRule1 ==
    /\ trace = <<>>
    /\ call' = [should_apply |-> TRUE]
    /\ df' = apply_rule1(df)
    /\ trace' = <<"rule1">>
    /\ UNCHANGED <<input, teacher_days, rating_inputs, results, filters, stats>>

ApplyRule2LLM ==
    /\ trace = <<>>
    /\ \E employee_types_to_keep \in AllowLists :
          /\ call' = [employee_types_to_keep |-> employee_types_to_keep]
          /\ df' = apply_rule2_llm(df, employee_types_to_keep)
    /\ trace' = <<"rule2_llm">>
    /\ UNCHANGED <<input, teacher_days, rating_inputs, results, filters, stats>>

ApplyRule2 ==
    /\ trace = <<>>
    /\ call' = [employee_types_to_keep |-> teacher_types]
    /\ df' = apply_rule2(df)
    /\ trace' = <<"rule2">>
    /\ UNCHANGED <<input, teacher_days, rating_inputs, results, filters, stats>>

NextRules == ApplyRule1LLM \/ ApplyRule1 \/ ApplyRule2LLM \/ ApplyRule2

SpecRules == InitRules /\ [][NextRules]_vars

----------------------------------------------------------------------------
(* Cleaning: validate_data_format *)

required_columns == {"Date", "School Year", "Employee Identifier", "Absence Type"}

\* df.empty: no row or no column
empty(t) == t.rows = <<>> \/ t.columns = {}

any_na(row) == \E c \in DOMAIN row : isna(row[c])

\* a row that dropna(how='all') removes
all_na(row) == \A c \in DOMAIN row : isna(row[c])

\* df[col] = convert(df[col]), the conversion given as a function on cells
MapCol(rows, col, conv) ==
    [i \in 1..Len(rows) |-> [c \in DOMAIN rows[i] |->
                                IF c = col THEN conv[rows[i][c]] ELSE rows[i][c]]]

\* the cells of one column of a sequence of rows
ColCells(rows, col) == {rows[i][col] : i \in 1..Len(rows)}

\* School Year is reported unless it reads 'YYYY-YYYY': nine characters, the
\* fifth a '-'
bad_school_year_format(school_year) ==
    notna(school_year) /\ ~(Len(str(school_year)) = 9 /\ str(school_year)[5] = "-")

\* DataCleaningAgentLLM.validate_data_format: the validated table and its
\* report
validate_data_format(t) ==
    LET original_rows == Len(t.rows)
        missing_columns == required_columns \ t.columns
        rows1 == IF ~empty(t) THEN SelectSeq(t.rows, LAMBDA r : ~all_na(r)) ELSE t.rows
        hasDate == "Date" \in t.columns
        dated == IF hasDate
                 THEN MapCol(rows1, "Date", [c \in ColCells(rows1, "Date") |-> to_datetime(c)])
                 ELSE rows1
        invalid_dates == IF hasDate
                         THEN Cardinality({i \in 1..Len(dated) : isna(dated[i]["Date"])})
                         ELSE 0
        rows2 == IF hasDate THEN SelectSeq(dated, LAMBDA r : notna(r["Date"])) ELSE dated
        hasDuration == "Duration" \in t.columns
        rows3 == IF hasDuration
                 THEN MapCol(rows2, "Duration",
                             [c \in ColCells(rows2, "Duration") |-> to_numeric(c)])
                 ELSE rows2
        negative_durations ==
            IF hasDuration
            THEN Cardinality({i \in 1..Len(rows3) :
                                 notna(rows3[i]["Duration"]) /\ rows3[i]["Duration"].v < 0})
            ELSE 0
        invalid_school_years ==
            IF "School Year" \in t.columns
            THEN Cardinality({i \in 1..Len(rows3) : bad_school_year_format(rows3[i]["School Year"])})
            ELSE 0
        empty_identifiers ==
            IF "Employee Identifier" \in t.columns
            THEN Cardinality({i \in 1..Len(rows3) : isna(rows3[i]["Employee Identifier"])})
            ELSE 0
    IN  [df |-> [columns |-> t.columns, rows |-> rows3],
         validation_report |->
            [status               |-> "validated",
             missing_columns      |-> missing_columns,
             empty_rows_removed   |-> original_rows - Len(rows1),
             invalid_dates        |-> invalid_dates,
             negative_durations   |-> negative_durations,
             invalid_school_years |-> invalid_school_years,
             empty_identifiers    |-> empty_identifiers,
             final_rows           |-> Len(rows3),
             rows_removed         |-> original_rows - Len(rows3)]]

----------------------------------------------------------------------------
(* Specification SpecValidate: validate_data_format on bounded tables, and *)
(* the day-duration calculator on what it returns                          *)

\* the text of a date, character by character
DateText(y, m, d) ==
    Str(y \o <<"-">> \o m \o <<"-">> \o d)

\* 2021-11-15 as a text, a text that is no date, a missing date
RawDateCells == {DateText(Y2021, <<"1", "1">>, <<"1", "5">>), Str(<<"n", "/", "a">>), NA}

\* Employee Identifier and School Year of a row: both given, a malformed
\* year, both missing, the identifier missing
KeyPairs ==
    {<<Word("E1"), SchoolYearText(Y2021, Y2022)>>, <<Word("E1"), Str(Y2021)>>,
     <<NA, NA>>, <<NA, SchoolYearText(Y2021, Y2022)>>}

\* Absence Type and Duration of a row: both missing, a custom duration with a
\* negative and with a non-numeric duration, a full day with its hours
TypePairs ==
    {<<NA, NA>>, <<Str(<<"Custom Duration">>), Num(0 - WorkdayHours)>>,
     <<Str(<<"Custom Duration">>), Str(<<"n/a">>)>>, <<Str(<<"Full Day">>), Num(3 * One)>>}

ValidateColumns == {"Date", "School Year", "Employee Identifier", "Absence Type", "Duration"}

\* the rows over cols: a date, a pair of keys, and a pair of type and hours
ValidateRows(cols) ==
    {[c \in cols |->
        CASE c = "Date"                -> date
          [] c = "School Year"         -> key[2]
          [] c = "Employee Identifier" -> key[1]
          [] c = "Absence Type"        -> type[1]
          [] OTHER                     -> type[2]] :
        date \in RawDateCells, key \in KeyPairs, type \in TypePairs}

InitValidate ==
    /\ \E cols \in {ValidateColumns, ValidateColumns \ {"Date"}, ValidateColumns \ {"Duration"}} :
          \E m \in 0..MaxRows :
              \E rs \in [1..m -> ValidateRows(cols)] :
                  input = [columns |-> cols, rows |-> rs]
    /\ df = input
    /\ trace = <<>>
    /\ teacher_days = NoTable
    /\ rating_inputs = NoInputs
    /\ call = NoCall
    /\ results = NoResults
    /\ filters = NoFilters
    /\ stats = NoStats

\* DataCleaningAgentLLM.validate_data_format
ValidateDataFormat ==
    /\ trace = <<>>
    /\ df' = validate_data_format(df).df
    /\ stats' = validate_data_format(df).validation_report
    /\ trace' = <<"validate">>
    /\ UNCHANGED <<input, teacher_days, rating_inputs, call, results, filters>>

\* DataCleaningAgentLLM.calculate_absence_days on the validated table
CalculateValidatedDays ==
    /\ trace = <<"validate">>
    /\ df' = calculate_absence_days_llm(df)
    /\ trace' = <<"validate", "days">>
    /\ UNCHANGED <<input, teacher_days, rating_inputs, call, results, filters, stats>>

NextValidate == ValidateDataFormat \/ CalculateValidatedDays

SpecValidate == InitValidate /\ [][NextValidate]_vars

----------------------------------------------------------------------------
(* Cleaning: DataCleaningAgentLLM.process, and the select and clean nodes  *)
(* of the orchestrator                                                     *)

\* None
None == [k |-> "none"]

\* a list value
List(q) == [k |-> "list", v |-> q]

\* bool(value) of None or a list
truthy(x) == x.k = "list" /\ x.v # <<>>

\* a key the dict does not have, a key it has
Absent == [k |-> "absent"]

Given(v) == [k |-> "given", v |-> v]

\* dict.get(key, default) on a dict held as a record of Absent and Given
get(x, default) == IF x.k = "given" THEN x.v ELSE default

\* filters.get('employee_type', None)
filters_get_employee_type(f) ==
    IF "employee_type" \in DOMAIN f THEN f["employee_type"] ELSE None

\* DataSelectionAgent.process with every column selected: the selected table,
\* or the error the select node raises on
selection_process(t, f) ==
    IF empty(t) THEN [status |-> "error", df |-> t]
    ELSE IF DOMAIN f = {} THEN [status |-> "ok", df |-> t]
    ELSE LET employee_type == filters_get_employee_type(f)
             filtered_df ==
                 IF truthy(employee_type) /\ "Employee Type" \in t.columns
                 THEN LET keep(row) == isin(row["Employee Type"], employee_type.v)
                      IN  [t EXCEPT !.rows = SelectSeq(t.rows, keep)]
                 ELSE t
         IN  IF empty(filtered_df) THEN [status |-> "error", df |-> t]
             ELSE [status |-> "ok", df |-> filtered_df]

\* blackboard_context of _clean_node
blackboard_context_of(f) ==
    [user_selected_employee_types |-> filters_get_employee_type(f),
     user_already_filtered_employee_types |->
        "employee_type" \in DOMAIN f /\ f["employee_type"] # None]

\* the rules written when the answer is no JSON
DefaultRules == [remove_unfilled_no_substitute |-> Given(TRUE),
                 employee_types_to_keep        |-> Given(teacher_types),
                 validate_school_year_dates    |-> Absent]

\* reason_about_cleaning_rules followed by reasoning.get('suggested_rules', {}):
\* the call of the model may raise, and a JSON answer that is no object has
\* no get
suggested_rules_of(llm_response) ==
    CASE llm_response.kind = "raise" -> Raised
      [] llm_response.kind = "text"  -> [status |-> "ok", suggested_rules |-> DefaultRules]
      [] OTHER ->
            IF ~llm_response.object THEN Raised
            ELSE [status |-> "ok", suggested_rules |-> llm_response.suggested_rules]

skip_rule2_never(blackboard_context) == FALSE

\* user_already_filtered and user_selected_types
skip_rule2(blackboard_context) ==
    /\ blackboard_context.user_already_filtered_employee_types
    /\ truthy(blackboard_context.user_selected_employee_types)

process_return_validation_only(t, validated, suggested_rules, df1, rule2_applied, df2, df3, df4) ==
    [status |-> "ok",
     df     |-> df4,
     stats  |-> [status            |-> "ok",
                 original_rows     |-> Len(t.rows),
                 after_validation  |-> Len(validated.df.rows),
                 validation_report |-> validated.validation_report,
                 suggested_rules   |-> suggested_rules,
                 after_rule1       |-> Len(df1.rows),
                 after_rule2       |-> Len(df2.rows),
                 rule2_applied     |-> rule2_applied,
                 after_rule3       |-> Len(df3.rows),
                 final_rows        |-> Len(df4.rows),
                 rows_removed      |-> validated.validation_report.rows_removed]]

\* the return of process: the cleaned table and the stats of the steps
process_return(t, validated, suggested_rules, df1, rule2_applied, df2, df3, df4) ==
    [status |-> "ok",
     df     |-> df4,
     stats  |-> [status            |-> "ok",
                 original_rows     |-> Len(t.rows),
                 after_validation  |-> Len(validated.df.rows),
                 validation_report |-> validated.validation_report,
                 suggested_rules   |-> suggested_rules,
                 after_rule1       |-> Len(df1.rows),
                 after_rule2       |-> Len(df2.rows),
                 rule2_applied     |-> rule2_applied,
                 after_rule3       |-> Len(df3.rows),
                 final_rows        |-> Len(df4.rows),
                 rows_removed      |-> Len(t.rows) - Len(df4.rows)]]

\* step 5 of process: the day calculation on what rule 3 has kept
process_days(t, validated, suggested_rules, df1, rule2_applied, df2, df3) ==
    process_return(t, validated, suggested_rules, df1, rule2_applied, df2, df3,
                  calculate_absence_days_llm(df3))

\* should_validate_dates: forced when the table has School Year and Date
should_validate_dates_of(suggested_rules, t) ==
    IF "School Year" \in t.columns /\ "Date" \in t.columns
    THEN TRUE
    ELSE get(suggested_rules.validate_school_year_dates, TRUE)

\* step 4 of process: rule 3 on what rule 2 has kept
process_rule3(t, validated, suggested_rules, df1, rule2_applied, df2, ns_only) ==
    process_days(t, validated, suggested_rules, df1, rule2_applied, df2,
                  apply_rule3(df2, should_validate_dates_of(suggested_rules, df2), ns_only))

\* step 3 of process: rule 2 on what rule 1 has kept, unless the caller has
\* filtered the categories
process_rule2(t, validated, suggested_rules, df1, blackboard_context, ns_only) ==
    IF skip_rule2(blackboard_context)
    THEN process_rule3(t, validated, suggested_rules, df1, FALSE, df1, ns_only)
    ELSE process_rule3(t, validated, suggested_rules, df1, TRUE,
                       apply_rule2_llm(df1, get(suggested_rules.employee_types_to_keep,
                                                teacher_types)),
                       ns_only)

\* steps 1 and 2 of process: the suggested rules of the model or its
\* exception, then rule 1 on the validated table
process_rule1(t, validated, reasoning, blackboard_context, ns_only) ==
    IF reasoning.status # "ok" THEN [status |-> "error", df |-> t, stats |-> Raised]
    ELSE process_rule2(t, validated, reasoning.suggested_rules,
                       apply_rule1_llm(validated.df,
                                       get(reasoning.suggested_rules.remove_unfilled_no_substitute,
                                           TRUE)),
                       blackboard_context, ns_only)

\* DataCleaningAgentLLM.process: step 0 validates the table, then the steps
\* above; the cleaned table and its stats, or the exception of step 1
process(t, blackboard_context, llm_response, ns_only) ==
    process_rule1(t, validate_data_format(t), suggested_rules_of(llm_response),
                  blackboard_context, ns_only)

----------------------------------------------------------------------------
(* Specification SpecPipeline: the select node and the clean node of the   *)
(* orchestrator on bounded raw tables, with the filters of the caller and  *)
(* the answers of the model                                                *)

\* the columns the cleaning stage knows, and Notes, which it does not
PipelineColumns ==
    {"Date", "School Year", "Employee Identifier", "Absence Type", "Duration",
     "Filled", "Needs Substitute", "Employee Type", "Notes"}

\* a date inside the school year 2021-2022 and a date after its end
PipelineDates ==
    {DateText(Y2021, <<"1", "1">>, <<"1", "5">>), DateText(Y2022, <<"0", "7">>, <<"0", "1">>)}

\* Filled and Needs Substitute of a row: an unfilled absence that needed no
\* substitute, a filled one
SubstitutePairs == {<<Word("Unfilled"), Word("NO")>>, <<Word("Filled"), Word("YES")>>}

\* the rows over cols: a full day of employee E1 in the school year 2021-2022,
\* its hours written as the text '7.5', a teacher or a custodian
PipelineRows(cols) ==
    {[c \in cols |->
        CASE c = "Date"                -> date
          [] c = "School Year"         -> SchoolYearText(Y2021, Y2022)
          [] c = "Employee Identifier" -> Word("E1")
          [] c = "Absence Type"        -> Word("Full Day")
          [] c = "Duration"            -> Word("7.5")
          [] c = "Notes"               -> Word("note")
          [] c = "Filled"              -> pair[1]
          [] c = "Needs Substitute"    -> pair[2]
          [] OTHER                     -> employee_type] :
        date \in PipelineDates, pair \in SubstitutePairs,
        employee_type \in {Word("Teacher"), Word("Custodian")}}

\* every column, every column but one required column, every column but
\* Employee Type
PipelineColumnSets ==
    {PipelineColumns} \cup {PipelineColumns \ {c} : c \in required_columns \cup {"Employee Type"}}

\* no filter, the key without a selection, an empty selection, a selection
PipelineFilters ==
    {NoFilters} \cup
    {[key \in {"employee_type"} |-> v] :
        v \in {None, List(<<>>), List(<<"Teacher">>), List(<<"Custodian">>)}}

\* the answers of the model: the call fails, a text that is no JSON, a JSON
\* value that is no object, a JSON object with and without each rule
CleaningResponses ==
    {[kind |-> "raise"], [kind |-> "text"], [kind |-> "json", object |-> FALSE]} \cup
    {[kind |-> "json", object |-> TRUE,
      suggested_rules |-> [remove_unfilled_no_substitute |-> r,
                           employee_types_to_keep        |-> e,
                           validate_school_year_dates    |-> v]] :
        r \in {Absent, Given(FALSE)},
        e \in {Absent, Given(<<>>), Given(<<"Teacher">>)},
        v \in {Absent, Given(FALSE)}}

InitPipeline ==
    /\ \E cols \in PipelineColumnSets :
          \E m \in 0..MaxRows :
              \E rs \in [1..m -> PipelineRows(cols)] :
                  input = [columns |-> cols, rows |-> rs]
    /\ filters \in PipelineFilters
    /\ df = input
    /\ trace = <<>>
    /\ teacher_days = NoTable
    /\ rating_inputs = NoInputs
    /\ call = NoCall
    /\ results = NoResults
    /\ stats = NoStats

\* _select_node with every column selected and no column map: selected_data,
\* or the ValueError that ends the run
SelectNode ==
    /\ trace = <<>>
    /\ LET selected == selection_process(input, filters) IN
       IF selected.status = "error"
       THEN /\ trace' = <<"select_error">>
            /\ UNCHANGED df
       ELSE /\ trace' = <<"select">>
            /\ df' = selected.df
    /\ UNCHANGED <<input, teacher_days, rating_inputs, call, results, filters, stats>>

\* _clean_node: cleaned_data and the stats of the cleaning agent, or the
\* exception that ends the run
CleanNode ==
    /\ trace = <<"select">>
    /\ ~empty(df)
    /\ \E llm_response \in CleaningResponses, ns_only \in BOOLEAN :
          \E cleaned \in {process(df, blackboard_context_of(filters), llm_response, ns_only)} :
          /\ call' = [llm_response |-> llm_response, ns_only |-> ns_only]
          /\ stats' = cleaned.stats
          /\ IF cleaned.status = "error"
             THEN /\ trace' = <<"select", "clean_error">>
                  /\ UNCHANGED df
             ELSE /\ trace' = <<"select", "clean">>
                  /\ df' = cleaned.df
    /\ UNCHANGED <<input, teacher_days, rating_inputs, results, filters>>

NextPipeline == SelectNode \/ CleanNode

SpecPipeline == InitPipeline /\ [][NextPipeline]_vars

----------------------------------------------------------------------------
(* Specification SpecOrder: the three rules of DataCleaningAgentLLM applied *)
(* to one table in any order, any of them more than once, with the same    *)
(* parameters every time                                                   *)

\* most rule applications on one table
MaxRuleCalls == 3

\* should_apply of rule 1, employee_types_to_keep, should_apply of rule 3
RuleParameters ==
    {[should_apply1 |-> TRUE,  employee_types_to_keep |-> <<"Teacher">>, should_apply3 |-> TRUE],
     [should_apply1 |-> TRUE,  employee_types_to_keep |-> <<>>,          should_apply3 |-> TRUE],
     [should_apply1 |-> FALSE, employee_types_to_keep |-> <<"Teacher">>, should_apply3 |-> TRUE],
     [should_apply1 |-> TRUE,  employee_types_to_keep |-> <<"Teacher">>, should_apply3 |-> FALSE]}

InitOrder ==
    /\ \E m \in 0..MaxRows :
          \E rs \in [1..m -> PipelineRows(PipelineColumns)] :
              input = [columns |-> PipelineColumns, rows |-> rs]
    /\ df = input
    /\ trace = <<>>
    /\ teacher_days = NoTable
    /\ rating_inputs = NoInputs
    /\ \E parameters \in RuleParameters, ns_only \in BOOLEAN :
          call = [parameters |-> parameters, ns_only |-> ns_only]
    /\ results = NoResults
    /\ filters = NoFilters
    /\ stats = NoStats

\* DataCleaningAgentLLM.apply_rule1 on the table as it is now
Rule1Step ==
    /\ Len(trace) < MaxRuleCalls
    /\ df' = apply_rule1_llm(df, call.parameters.should_apply1)
    /\ trace' = Append(trace, "rule1")
    /\ UNCHANGED <<input, teacher_days, rating_inputs, call, results, filters, stats>>

\* DataCleaningAgentLLM.apply_rule2 on the table as it is now
Rule2Step ==
    /\ Len(trace) < MaxRuleCalls
    /\ df' = apply_rule2_llm(df, call.parameters.employee_types_to_keep)
    /\ trace' = Append(trace, "rule2")
    /\ UNCHANGED <<input, teacher_days, rating_inputs, call, results, filters, stats>>

\* DataCleaningAgentLLM.apply_rule3 on the table as it is now
Rule3Step ==
    /\ Len(trace) < MaxRuleCalls
    /\ df' = apply_rule3(df, call.parameters.should_apply3, call.ns_only)
    /\ trace' = Append(trace, "rule3")
    /\ UNCHANGED <<input, teacher_days, rating_inputs, call, results, filters, stats>>

NextOrder == Rule1Step \/ Rule2Step \/ Rule3Step

SpecOrder == InitOrder /\ [][NextOrder]_vars

----------------------------------------------------------------------------
(* Orchestrator: the state of the graph, its four nodes, and the two ways   *)
(* a node's return value is written back to the state                       *)

\* _COLUMN_ALIASES: lower-cased column name -> standard name
COLUMN_ALIASES ==
    [key \in {"school year", "schoolyear", "sy", "fiscal year",
              "employee identifier", "employee id", "emp id", "employee_id",
              "absence_days", "absence days", "total_days", "days",
              "percent of day", "absence"} |->
        CASE key \in {"school year", "schoolyear", "sy", "fiscal year"} -> "School Year"
          [] key \in {"employee identifier", "employee id", "emp id", "employee_id"} ->
                "Employee Identifier"
          [] OTHER -> "Absence_Days"]

\* str(c).strip().lower() of the column names the tables use
lower(c) ==
    CASE c = "Date"                -> "date"
      [] c = "School Year"         -> "school year"
      [] c = "Employee Identifier" -> "employee identifier"
      [] c = "Absence Type"        -> "absence type"
      [] c = "Absence_Days"        -> "absence_days"
      [] c = "Percent of Day"      -> "percent of day"
      [] c = "Duration"            -> "duration"
      [] c = "Filled"              -> "filled"
      [] c = "Needs Substitute"    -> "needs substitute"
      [] c = "Employee Type"       -> "employee type"
      [] OTHER                     -> c

\* key.replace(' ', '')
replace_spaces(key) ==
    CASE key = "school year"         -> "schoolyear"
      [] key = "employee identifier" -> "employeeidentifier"
      [] key = "absence type"        -> "absencetype"
      [] key = "percent of day"      -> "percentofday"
      [] key = "needs substitute"    -> "needssubstitute"
      [] key = "employee type"       -> "employeetype"
      [] OTHER                       -> key

\* the name a column has after df.rename(columns=col_map): its alias target,
\* or its own name when it has none
renamed(c, columns) ==
    LET target == IF lower(c) \in DOMAIN COLUMN_ALIASES THEN Given(COLUMN_ALIASES[lower(c)])
                  ELSE IF replace_spaces(lower(c)) \in DOMAIN COLUMN_ALIASES
                       THEN Given(COLUMN_ALIASES[replace_spaces(lower(c))])
                       ELSE Absent
    IN  IF target = Given("Absence_Days") /\ "Absence_Days" \in columns /\ lower(c) = "duration"
        THEN c
        ELSE get(target, c)

\* _normalize_calc_columns: the table and the name each of its columns now
\* has; two columns may have the same name
normalize_calc_columns(t) ==
    IF empty(t) THEN [table |-> t, names |-> [c \in t.columns |-> c]]
    ELSE [table |-> t, names |-> [c \in t.columns |-> renamed(c, t.columns)]]

\* the columns of a renamed table that have the name
named(d, name) == {c \in DOMAIN d.names : d.names[c] = name}

\* str(n) of a natural number, character by character
RECURSIVE astype_str(_)
astype_str(n) ==
    LET digit == CHOOSE ch \in Digits : DigitValue(ch) = n % 10
    IN  IF n < 10 THEN <<digit>> ELSE Append(astype_str(n \div 10), digit)

\* the School Year of a date: July 1 and later start a year
school_year_of(date) ==
    IF isna(date) THEN Str(<<"n", "a", "n", "-", "n", "a", "n">>)
    ELSE LET year       == date.v \div 10000
             month      == (date.v \div 100) % 100
             year_start == IF month >= 7 THEN year ELSE year - 1
         IN  Str(astype_str(year_start) \o <<"-">> \o astype_str(year_start + 1))

\* _derive_school_year_from_date
derive_school_year_from_date(d) ==
    IF empty(d.table) \/ named(d, "School Year") # {} THEN d
    ELSE IF named(d, "Date") = {} THEN d
    ELSE [table |->
            [columns |-> d.table.columns \cup {"School Year"},
             rows    |-> [i \in 1..Len(d.table.rows) |->
                            SetCol(d.table.rows[i], "School Year",
                                   school_year_of(to_datetime(d.table.rows[i]["Date"])))]],
          names |-> [c \in d.table.columns \cup {"School Year"} |->
                        IF c = "School Year" THEN c ELSE d.names[c]]]

\* DataFrame.sum(axis=1) of one row over some columns, NaN skipped
RECURSIVE sum_axis1(_, _)
sum_axis1(row, cols) ==
    IF cols = {} THEN 0
    ELSE LET c == CHOOSE x \in cols : TRUE
         IN  (IF notna(row[c]) THEN row[c].v ELSE 0) + sum_axis1(row, cols \ {c})

\* _single_col(d, name): the column of that name; the tables of the model
\* have at most one column for each key
single_col(d, name, row) == row[CHOOSE c \in named(d, name) : TRUE]

\* _single_col(d, 'Absence_Days', combine_sum=True): the columns of that
\* name added up when there are several
single_col_sum(d, name, row) ==
    IF Cardinality(named(d, name)) > 1 THEN Num(sum_axis1(row, named(d, name)))
    ELSE row[CHOOSE c \in named(d, name) : TRUE]

\* the three-column table that _calculate_node builds from the renamed one
three_columns(d) ==
    [columns |-> {"School Year", "Employee Identifier", "Absence_Days"},
     rows    |-> [i \in 1..Len(d.table.rows) |->
                    [c \in {"School Year", "Employee Identifier", "Absence_Days"} |->
                        IF c = "Absence_Days"
                        THEN single_col_sum(d, c, d.table.rows[i])
                        ELSE single_col(d, c, d.table.rows[i])]]]

\* rating_inputs.get(key, default) for the five rating parameters
rating_inputs_get(ri) ==
    [deductible |-> IF "deductible" \in DOMAIN ri THEN ri.deductible ELSE 20 * One,
     cc_days    |-> IF "cc_days" \in DOMAIN ri THEN ri.cc_days ELSE 60 * One,
     replacement_cost |->
        IF "replacement_cost" \in DOMAIN ri THEN ri.replacement_cost ELSE 150 * One,
     ark_commission_rate |->
        IF "ark_commission_rate" \in DOMAIN ri THEN ri.ark_commission_rate ELSE Rate15,
     abcover_commission_rate |->
        IF "abcover_commission_rate" \in DOMAIN ri THEN ri.abcover_commission_rate
        ELSE Rate15]

\* FileUploadAgent.process: the table of the file, or an error for a file
\* without data
upload_process(file) ==
    IF empty(file) THEN [status |-> "error"] ELSE [status |-> "ok", df |-> file]

\* what a node hands back: the dict it returns and whether its step was done,
\* skipped (`return state`) or ended in an exception
Done(result) == [outcome |-> "done", result |-> result]

Skipped(state) == [outcome |-> "skipped", result |-> state]

NodeRaised(state) == [outcome |-> "raised", result |-> state]

\* _upload_node
upload_node(state, file) ==
    IF state.uploaded_file
    THEN IF upload_process(file).status = "error" THEN NodeRaised(state)
         ELSE Done([raw_data |-> upload_process(file).df,
                    processing_history |->
                        <<[step |-> "upload", rows |-> Len(upload_process(file).df.rows)]>>])
    ELSE Skipped(state)

\* _select_node with every column of raw_data selected and no column map
select_node(state, f) ==
    IF state.raw_data.columns = {} \/ selection_process(state.raw_data, f).status = "error"
    THEN NodeRaised(state)
    ELSE Done([selected_data |-> selection_process(state.raw_data, f).df,
               processing_history |->
                   <<[step |-> "select",
                      rows |-> Len(selection_process(state.raw_data, f).df.rows)]>>])

\* the return of _clean_node when the cleaning agent has returned
clean_return(state, cleaned) ==
    IF cleaned.status = "error" THEN NodeRaised(state)
    ELSE Done([cleaned_data |-> cleaned.df,
               processing_history |-> <<[step |-> "clean", rows |-> Len(cleaned.df.rows)]>>])

\* _clean_node
clean_node(state, f, llm_response, ns_only) ==
    IF ~empty(state.selected_data)
    THEN clean_return(state, process(state.selected_data, blackboard_context_of(f),
                                     llm_response, ns_only))
    ELSE Skipped(state)

\* the return of _calculate_node when the rating agent has returned, with the
\* three-column table and the aggregate the node has computed on the way
calculate_return(state, frame, td, rated) ==
    IF rated.status # "ok" THEN NodeRaised(state)
    ELSE [outcome |-> "done", frame |-> frame, teacher_days |-> td,
          result  |-> [rating_results |-> rated,
                       processing_history |->
                           <<[step |-> "calculate", premium |-> rated.total_premium]>>]]

\* _calculate_node once the three-column table is built: the aggregation,
\* then the rating agent on the aggregate
calculate_rate(state, frame, ri, llm_response) ==
    calculate_return(state, frame, groupby_school_year_employee(frame),
                     calculate_with_reasoning(groupby_school_year_employee(frame), frame,
                                              rating_inputs_get(ri), NoApproach, llm_response))

\* _calculate_node once the columns are renamed: KeyError when a required
\* column is missing
calculate_frame(state, d, ri, llm_response) ==
    IF \E c \in {"School Year", "Employee Identifier", "Absence_Days"} : named(d, c) = {}
    THEN NodeRaised(state)
    ELSE calculate_rate(state, three_columns(d), ri, llm_response)

\* _calculate_node
calculate_node(state, ri, llm_response) ==
    IF ~empty(state.cleaned_data) /\ DOMAIN ri # {}
    THEN calculate_frame(state,
                         derive_school_year_from_date(normalize_calc_columns(state.cleaned_data)),
                         ri, llm_response)
    ELSE Skipped(state)

\* the reducer of processing_history: lambda x, y: x + y
processing_history_reducer(x, y) == x \o y

\* the graph writes every key of the dict a node returns to its channel, and
\* processing_history through its reducer
graph_update(state, result) ==
    [key \in DOMAIN state |->
        IF key \notin DOMAIN result THEN state[key]
        ELSE IF key = "processing_history"
             THEN processing_history_reducer(state[key], result[key])
             ELSE result[key]]

\* agent_state.update(result), and `agent_state[key] = value` for every key
dict_update(state, result) ==
    [key \in DOMAIN state |-> IF key \in DOMAIN result THEN result[key] ELSE state[key]]

\* the edges of _build_graph
edge_past_select(node) ==
    CASE node = "upload" -> "clean"
      [] node = "select" -> "clean"
      [] node = "clean"  -> "calculate"
      [] OTHER           -> "END"

edge(node) ==
    CASE node = "upload" -> "select"
      [] node = "select" -> "clean"
      [] node = "clean"  -> "calculate"
      [] OTHER           -> "END"

----------------------------------------------------------------------------
(* Specification SpecGraph: the four nodes of the orchestrator on one file, *)
(* run by the graph of LangGraphOrchestrator.run or one at a time by the    *)
(* handlers of the app.  Here input is the table of the file, stats the     *)
(* AgentState, call the mode and the node the graph is at, trace the node   *)
(* calls with their outcomes, df and teacher_days the three-column table    *)
(* and the aggregate of the last calculation, results its rating_results.   *)

\* most node calls the app makes in one session
MaxNodeCalls == 4

\* the columns of the file: the required ones, with a Percent of Day or a
\* Duration column, or without School Year
GraphColumnSets ==
    {{"Date", "School Year", "Employee Identifier", "Absence Type", "Filled",
      "Needs Substitute", "Employee Type"} \cup extra : extra \in {{}, {"Percent of Day"}, {"Duration"}}}
    \cup {{"Date", "Employee Identifier", "Absence Type", "Filled", "Needs Substitute",
           "Employee Type"}}

\* the rows over cols: a full or a half day of teacher E1 on 2021-11-15,
\* filled or not; Percent of Day repeats the fraction of the day as a number,
\* Duration its hours
GraphRows(cols) ==
    {[c \in cols |->
        CASE c = "Date"                -> DateText(Y2021, <<"1", "1">>, <<"1", "5">>)
          [] c = "School Year"         -> SchoolYearText(Y2021, Y2022)
          [] c = "Employee Identifier" -> Word("E1")
          [] c = "Absence Type"        -> Word(day[1])
          [] c = "Percent of Day"      -> Num(day[2])
          [] c = "Duration"            -> Num(FMul(day[2], WorkdayHours))
          [] c = "Filled"              -> pair[1]
          [] c = "Needs Substitute"    -> pair[2]
          [] OTHER                     -> Word("Teacher")] :
        day \in {<<"Full Day", One>>, <<"AM Half Day", One \div 2>>},
        pair \in SubstitutePairs}

\* rating_inputs of `run`: {}, the deductible alone, every parameter; the
\* Calculate Premium handler of the app sets every parameter
GraphRatingInputs(mode) ==
    IF mode = "app" THEN {Inputs(0, 2, 100, Rate15, Rate15)}
    ELSE {<<>>, [deductible |-> 0], Inputs(0, 2, 100, Rate15, Rate15)}

\* AgentState as `run` builds it, and as the app builds it
initial_state(uploaded_file) ==
    [uploaded_file      |-> uploaded_file,
     raw_data           |-> NoTable,
     selected_data      |-> NoTable,
     cleaned_data       |-> NoTable,
     rating_results     |-> NoResults,
     processing_history |-> <<>>]

InitGraph ==
    /\ \E cols \in GraphColumnSets :
          \E m \in 0..MaxRows :
              \E rs \in [1..m -> GraphRows(cols)] :
                  input = [columns |-> cols, rows |-> rs]
    /\ filters \in {NoFilters, [key \in {"employee_type"} |-> List(<<"Custodian">>)]}
    /\ \E mode \in {"run", "app"}, uploaded_file \in BOOLEAN :
          /\ rating_inputs \in GraphRatingInputs(mode)
          /\ call = [mode |-> mode, node |-> "upload"]
          /\ stats = initial_state(uploaded_file)
    /\ df = NoTable
    /\ teacher_days = NoTable
    /\ results = NoResults
    /\ trace = <<>>

\* the graph is at the node; the app may call the node
Enabled(node, shown) ==
    \/ call.mode = "run" /\ call.node = node
    \/ call.mode = "app" /\ shown /\ Len(trace) < MaxNodeCalls

\* the state after the node has returned: under the graph an exception ends
\* the run, in the app it is caught and the state stays
Returned(node, returned) ==
    /\ trace' = Append(trace, [node |-> node, outcome |-> returned.outcome])
    /\ call' = [call EXCEPT !.node = IF call.mode = "app" THEN @
                                     ELSE IF returned.outcome = "raised" THEN "raised"
                                     ELSE edge(node)]
    /\ stats' = IF returned.outcome = "raised" THEN stats
                ELSE IF call.mode = "run" THEN graph_update(stats, returned.result)
                ELSE dict_update(stats, returned.result)
    /\ df' = IF "frame" \in DOMAIN returned THEN returned.frame ELSE df
    /\ teacher_days' = IF "frame" \in DOMAIN returned THEN returned.teacher_days
                       ELSE teacher_days
    /\ results' = stats'.rating_results
    /\ UNCHANGED <<input, rating_inputs, filters>>

\* the upload node, or the upload handler of the app
UploadStep ==
    /\ Enabled("upload", stats.uploaded_file)
    /\ Returned("upload", upload_node(stats, input))

\* the select node, or the Apply Selection handler of the app
SelectStep ==
    /\ Enabled("select", ~empty(stats.raw_data))
    /\ Returned("select", select_node(stats, filters))

\* the clean node, or the Clean Data handler of the app
CleanStep ==
    /\ Enabled("clean", ~empty(stats.selected_data))
    /\ \E llm_response \in {[kind |-> "raise"], [kind |-> "text"]}, ns_only \in BOOLEAN :
          Returned("clean", clean_node(stats, filters, llm_response, ns_only))

\* the calculate node, or the Calculate Premium handler of the app
CalculateStep ==
    /\ Enabled("calculate", ~empty(stats.cleaned_data))
    /\ \E llm_response \in {[kind |-> "raise"], [kind |-> "text"]} :
          Returned("calculate", calculate_node(stats, rating_inputs, llm_response))

NextGraph == UploadStep \/ SelectStep \/ CleanStep \/ CalculateStep

SpecGraph == InitGraph /\ [][NextGraph]_vars

----------------------------------------------------------------------------
(* Claims: the day-duration calculator (SpecDays) *)

\* the first call was DataCleaningAgentLLM.calculate_absence_days on a table
\* with an Absence Type column
LLMCalculatorRan == trace = <<"llm">> /\ "Absence Type" \in input.columns

ExactCodes == {Str(<<"Full Day">>), Str(<<"AM Half Day">>), Str(<<"PM Half Day">>),
               Str(<<"Custom Duration">>)}

\* the row has a valid non-negative numeric duration
ValidDuration(row) ==
    /\ "Duration" \in DOMAIN row
    /\ notna(to_numeric(row["Duration"]))
    /\ to_numeric(row["Duration"]).v >= 0

\* day = hours / 7.5
IsHoursOverWorkday(day, row) ==
    day.k = "num" /\ day.v * WorkdayHours = to_numeric(row["Duration"]).v * One

\* C1 as stated: each row gets 1.0 for 'Full Day', 0.5 for 'AM Half Day' and
\* 'PM Half Day', h / 7.5 for 'Custom Duration' with a valid non-negative
\* duration h, and 0.0 for every other code and for a missing absence type.
C1_ExactCodes ==
    LLMCalculatorRan =>
        \A i \in 1..Len(input.rows) :
            LET row  == input.rows[i]
                type == row["Absence Type"]
                day  == df.rows[i]["Absence_Days"]
            IN  /\ type = Str(<<"Full Day">>) => day = Num(One)
                /\ type \in {Str(<<"AM Half Day">>), Str(<<"PM Half Day">>)} => day = Num(One \div 2)
                /\ (type = Str(<<"Custom Duration">>) /\ ValidDuration(row)) =>
                       IsHoursOverWorkday(day, row)
                /\ type \notin ExactCodes => day = Num(0)

\* the absence-type code of a row, surrounding white space removed
StrippedCode(row) ==
    IF row["Absence Type"].k = "str" THEN strip(row["Absence Type"].s) ELSE <<>>

\* C1 as amended: the code is compared after surrounding white space is
\* removed; each row, independently of all other rows, gets 1.0 for
\* 'Full Day', 0.5 for the half days, h / 7.5 for 'Custom Duration' with a
\* valid non-negative duration h, and 0.0 for every other code and for a
\* missing absence type.
C1_StrippedCodes ==
    LLMCalculatorRan =>
        /\ Len(df.rows) = Len(input.rows)
        /\ \A i \in 1..Len(input.rows) :
            LET row  == input.rows[i]
                code == StrippedCode(row)
                day  == df.rows[i]["Absence_Days"]
            IN  /\ code = <<"Full Day">> => day = Num(One)
                /\ code \in {<<"AM Half Day">>, <<"PM Half Day">>} => day = Num(One \div 2)
                /\ (code = <<"Custom Duration">> /\ ValidDuration(row)) =>
                       IsHoursOverWorkday(day, row)
                /\ code \notin {<<"Full Day">>, <<"AM Half Day">>, <<"PM Half Day">>,
                                <<"Custom Duration">>} => day = Num(0)

\* C1 witness: a two-row table, 'Full Day ' with trailing white space valued
\* 1.0 beside a 3-hour custom duration valued 0.4
C1_Witness ==
    /\ LLMCalculatorRan
    /\ \E i, j \in 1..Len(input.rows) :
          /\ input.rows[i]["Absence Type"] = Str(<<"Full Day", " ">>)
          /\ df.rows[i]["Absence_Days"] = Num(One)
          /\ "Duration" \in input.columns
          /\ input.rows[j]["Absence Type"] = Str(<<"Custom Duration">>)
          /\ input.rows[j]["Duration"] = Num(3 * One)
          /\ df.rows[j]["Absence_Days"] = Num((2 * One) \div 5)

\* C2 as stated: whenever the input table already carries Absence_Days, the
\* day value of every row after the calculator of either cleaning agent is the
\* type-based value of that row, also when the Absence Type column is absent
\* (a missing absence type is worth 0.0).
C2_AlwaysRecomputed ==
    (trace # <<>> /\ "Absence_Days" \in input.columns) =>
        \A i \in 1..Len(input.rows) :
            df.rows[i]["Absence_Days"] = calculate_days(input.rows[i])

----------------------------------------------------------------------------
(* Claims: the period-consistency rule (SpecPeriod) *)

Rule3Ran == trace = <<"rule3">> /\ {"School Year", "Date"} \subseteq input.columns

\* how often row r occurs in the sequence q
Count(q, r) == Cardinality({i \in 1..Len(q) : q[i] = r})

FourDigits(part) == Len(part) = 4 /\ \A i \in 1..4 : part[i] \in Digits

\* the cell is a text 'start-end' of two 4-digit years
IsStartEnd(c) ==
    /\ c.k = "str"
    /\ Len(split(c.s, "-")) = 2
    /\ FourDigits(split(c.s, "-")[1])
    /\ FourDigits(split(c.s, "-")[2])

\* the date of the row lies in [July 1 of start, June 30 of end]
InSchoolYear(row) ==
    LET parts == split(row["School Year"].s, "-") IN
    /\ row["Date"].v >= DecimalValue(parts[1]) * 10000 + 701
    /\ row["Date"].v <= DecimalValue(parts[2]) * 10000 + 630

PeriodRow(school_year, ymd) ==
    [c \in {"School Year", "Date"} |-> IF c = "School Year" THEN school_year ELSE Timestamp(ymd)]

\* C9: a row whose School Year is 'start-end' is kept exactly when its date
\* lies in [July 1 of start, June 30 of end]; for '2021-2022' the dates
\* 2021-07-01 and 2022-06-30 are kept, 2021-06-30 and 2022-07-01 are dropped.
C9_KeptIffInWindow ==
    Rule3Ran =>
        /\ \A i \in 1..Len(input.rows) :
              LET row == input.rows[i] IN
              IsStartEnd(row["School Year"]) =>
                  Count(df.rows, row) = IF InSchoolYear(row) THEN Count(input.rows, row) ELSE 0
        /\ \A i \in 1..Len(input.rows) :
              /\ input.rows[i] \in {PeriodRow(SY_2021_2022, 20210701),
                                    PeriodRow(SY_2021_2022, 20220630)}
                    => Count(df.rows, input.rows[i]) > 0
              /\ input.rows[i] \in {PeriodRow(SY_2021_2022, 20210630),
                                    PeriodRow(SY_2021_2022, 20220701)}
                    => Count(df.rows, input.rows[i]) = 0

\* C9 witness: June 30, 2022 is kept and July 1, 2022 is dropped from one table
C9_Witness ==
    /\ Rule3Ran
    /\ input.rows = <<PeriodRow(SY_2021_2022, 20220701), PeriodRow(SY_2021_2022, 20220630)>>
    /\ df.rows = <<PeriodRow(SY_2021_2022, 20220630)>>

\* C10 as stated: every row whose School Year is not two 4-digit years
\* (missing, not two parts, a part that is no number, years of other than
\* four digits) is kept, whatever its date.
C10_UnparsedKept ==
    Rule3Ran =>
        \A i \in 1..Len(input.rows) :
            ~IsStartEnd(input.rows[i]["School Year"]) =>
                Count(df.rows, input.rows[i]) = Count(input.rows, input.rows[i])

----------------------------------------------------------------------------
(* Claims: tiers and premium (SpecRate) *)

\* RatingEngineAgentLLM returned a result
LLMRated ==
    /\ Len(trace) = 2
    /\ trace[2] \in {"process", "calculate_with_reasoning"}
    /\ results.status = "ok"

\* RatingEngineAgent returned a result
PlainRated == Len(trace) = 2 /\ trace[2] = "rating_process" /\ results.status = "ok"

\* the employees of the aggregate table and their total days over all years
EmployeeTotals == total_days_per_teacher_of(teacher_days)

Deductible == rating_inputs.deductible

Ceiling == rating_inputs.deductible + rating_inputs.cc_days

\* C3: below_deductible_count + num_staff_cc_range + num_high_claimant equals
\* total_teachers, the number of employees of the table of totals.
C3_TiersPartition ==
    LLMRated =>
        /\ results.total_teachers = Cardinality(DOMAIN EmployeeTotals)
        /\ results.below_deductible_count + results.num_staff_cc_range
               + results.num_high_claimant = results.total_teachers

\* C3 witness: the answer key, one teacher below, two in range, one above
C3_Witness ==
    /\ LLMRated
    /\ results.total_teachers = 4
    /\ results.below_deductible_count = 1
    /\ results.num_staff_cc_range = 2
    /\ results.num_high_claimant = 1

\* e is the only employee that can be in the coverage range: total_cc_days is
\* reported as one sum, so it is the chargeable days of e alone
OnlyInRange(e) ==
    \A x \in DOMAIN EmployeeTotals :
        (x # e) => ~(EmployeeTotals[x] > Deductible /\ EmployeeTotals[x] <= Ceiling)

\* C4 as stated, for both rating agents: an employee with exactly deductible
\* days is below the deductible and adds no chargeable day; an employee with
\* exactly deductible + cc_days days is in the coverage range with exactly
\* cc_days chargeable days and adds no excess day.
C4_BoundariesDownward ==
    (LLMRated \/ PlainRated) =>
        \A e \in DOMAIN EmployeeTotals :
            /\ (EmployeeTotals[e] = Deductible /\ DOMAIN EmployeeTotals = {e}) =>
                  /\ results.num_staff_cc_range = 0
                  /\ results.num_high_claimant = 0
                  /\ results.total_cc_days = 0
            /\ (EmployeeTotals[e] = Ceiling /\ rating_inputs.cc_days > 0 /\ OnlyInRange(e)) =>
                  /\ results.num_staff_cc_range = 1
                  /\ results.total_cc_days = rating_inputs.cc_days
            /\ (EmployeeTotals[e] = Ceiling /\ DOMAIN EmployeeTotals = {e}) =>
                  /\ results.num_high_claimant = 0
                  /\ results.excess_days = 0

ExcessOnly ==
    SeriesSum([e \in {x \in DOMAIN EmployeeTotals : EmployeeTotals[x] > Ceiling} |->
                  EmployeeTotals[e] - Ceiling])

\* C6: excess_days is the sum of d - cc_maximum over the employees with
\* d > cc_maximum, whatever approach the caller passes or the model recommends.
C6_ExcessOnly ==
    LLMRated =>
        /\ results.excess_days = ExcessOnly
        /\ results.num_high_claimant =
              Cardinality({x \in DOMAIN EmployeeTotals : EmployeeTotals[x] > Ceiling})

\* C6 witness: the caller passes 'all_days', an employee is above a positive
\* ceiling, and only the excess is counted
C6_Witness ==
    /\ LLMRated
    /\ call.passed = Approach("all_days")
    /\ results.num_high_claimant > 0
    /\ Ceiling > 0
    /\ results.excess_days = ExcessOnly

\* the aggregate table with one more day in row i
OneMoreDay(i) ==
    [teacher_days EXCEPT !.rows[i] =
        SetCol(teacher_days.rows[i], "Total_Days", Num(teacher_days.rows[i]["Total_Days"].v + One))]

\* C7: replacement_cost_cc = replacement_cost x total_cc_days, each commission
\* is replacement_cost_cc x its rate, total_premium is the sum of the three;
\* high_claimant_cost = replacement_cost x excess_days is no term of it, so
\* one more day for an employee above the ceiling leaves total_premium as is.
C7_PremiumArithmetic ==
    /\ (LLMRated \/ PlainRated) =>
          /\ results.replacement_cost_cc = FMul(rating_inputs.replacement_cost, results.total_cc_days)
          /\ results.ark_commission =
                FMul(results.replacement_cost_cc, rating_inputs.ark_commission_rate)
          /\ results.abcover_commission =
                FMul(results.replacement_cost_cc, rating_inputs.abcover_commission_rate)
          /\ results.total_premium = results.replacement_cost_cc + results.ark_commission
                                         + results.abcover_commission
          /\ results.high_claimant_cost = FMul(rating_inputs.replacement_cost, results.excess_days)
    /\ LLMRated =>
          \A i \in 1..Len(teacher_days.rows) :
              EmployeeTotals[teacher_days.rows[i]["Employee Identifier"]] > Ceiling =>
                  calculate_with_reasoning(OneMoreDay(i), df, rating_inputs, call.passed,
                                           call.llm_response).total_premium
                      = results.total_premium

\* C7 witness: a result with a positive premium and a positive high-claimant
\* cost
C7_Witness ==
    /\ LLMRated
    /\ trace[2] = "process"
    /\ results.total_premium > 0
    /\ results.high_claimant_cost > 0
    /\ results.ark_commission > 0

AnswerKeyRated ==
    /\ trace = <<"aggregate", "process">>
    /\ input = AnswerKeyTable
    /\ rating_inputs = AnswerKeyInputs
    /\ results.status = "ok"

----------------------------------------------------------------------------
(* Claims: the substitute-need rule and the category rule (SpecRules) *)

Rule1Ran ==
    /\ Len(trace) = 1
    /\ trace[1] \in {"rule1_llm", "rule1"}
    /\ call.should_apply
    /\ {"Filled", "Needs Substitute"} \subseteq input.columns

\* the row is Unfilled and needs no substitute
UnfilledNoSubstitute(row) ==
    row["Filled"] = Word("Unfilled") /\ row["Needs Substitute"] = Word("NO")

\* C11: when the substitute-need rule of either agent is applied, a row is
\* dropped if and only if Filled is 'Unfilled' and Needs Substitute is 'NO';
\* every other row is kept and the kept rows stay in their order.
C11_DroppedIffUnfilledNo ==
    Rule1Ran =>
        /\ df.columns = input.columns
        /\ df.rows = SelectSeq(input.rows, LAMBDA row : ~UnfilledNoSubstitute(row))

\* C11 witness: of two rows the first, Unfilled and 'NO', is dropped and the
\* second, Unfilled with a substitute needed or unknown, is kept
C11_Witness ==
    /\ Rule1Ran
    /\ Len(input.rows) = 2
    /\ Len(df.rows) = 1
    /\ UnfilledNoSubstitute(input.rows[1])
    /\ df.rows[1] = input.rows[2]
    /\ input.rows[2]["Filled"] = Word("Unfilled")
    /\ input.rows[2]["Needs Substitute"] \in {NA, Word("YES")}

Rule2Ran ==
    /\ trace = <<"rule2_llm">>
    /\ "Employee Type" \in input.columns

\* C12 as stated: after the category rule every row of the output has an
\* Employee Type that is a member of the supplied allow-list, for every
\* allow-list, the empty one included (which keeps no row).
C12_OnlyAllowListed ==
    Rule2Ran =>
        \A i \in 1..Len(df.rows) :
            isin(df.rows[i]["Employee Type"], call.employee_types_to_keep)

----------------------------------------------------------------------------
(* Claims: validation (SpecValidate) *)

ValidateRan == trace = <<"validate">>

\* the row is empty in every column, or its Date is no date
EmptyOrUndated(row) ==
    \/ \A c \in DOMAIN row : row[c] = NA
    \/ "Date" \in DOMAIN row /\ to_datetime(row["Date"]) = NA

HasNegativeDuration(row) ==
    "Duration" \in DOMAIN row /\ row["Duration"].k = "num" /\ row["Duration"].v < 0

HasMalformedSchoolYear(row) ==
    "School Year" \in DOMAIN row /\ row["School Year"] # NA /\ ~IsStartEnd(row["School Year"])

C19_KeysAndDate ==
    (ValidateRan /\ required_columns \subseteq input.columns) =>
        \A i \in 1..Len(df.rows) :
            /\ ~(df.rows[i]["Employee Identifier"] = NA /\ df.rows[i]["School Year"] = NA)
            /\ df.rows[i]["Date"].k = "date"

\* C20 as stated: every row leaving validate_data_format followed by
\* calculate_absence_days has Absence_Days >= 0; a 'Custom Duration' row with
\* a negative or a non-numeric Duration gets 0.0.
C20_DaysNeverNegative ==
    (trace = <<"validate", "days">> /\ "Absence Type" \in input.columns) =>
        \A i \in 1..Len(df.rows) : df.rows[i]["Absence_Days"].v >= 0

----------------------------------------------------------------------------
(* Claims: the stages of the pipeline (SpecPipeline) *)

\* the clean node has returned the cleaned table
Cleaned == trace = <<"select", "clean">>

\* the caller has chosen categories in the filters
CallerFiltered ==
    "employee_type" \in DOMAIN filters /\ truthy(filters["employee_type"])

\* C13: a caller's category filter is never followed by the category rule of
\* the cleaning stage: when the caller has chosen categories, cleaning leaves
\* the rows as they are at the category rule and reports that it did not
\* apply it, and of the select stage and the clean stage at most one removes
\* rows by category
C13_FilteredOnce ==
    Cleaned =>
        /\ CallerFiltered =>
              stats.rule2_applied = FALSE /\ stats.after_rule2 = stats.after_rule1
        /\ ~(stats.original_rows < Len(input.rows) /\ stats.after_rule2 < stats.after_rule1)

\* the caller chose Teacher, selection dropped a custodian, and cleaning kept
\* the teacher although the model's answer lists no category
C13_Witness ==
    /\ Cleaned
    /\ CallerFiltered
    /\ stats.original_rows < Len(input.rows)
    /\ call.llm_response.kind = "json" /\ call.llm_response.object
    /\ call.llm_response.suggested_rules.employee_types_to_keep = Given(<<>>)
    /\ stats.after_rule2 = stats.after_rule1
    /\ stats.after_rule1 > 0

\* C14: each rule of the cleaning stage follows its own toggle: when the
\* period-consistency toggle is false the period-consistency rule removes no
\* row, and when the substitute-need toggle is false the substitute-need
\* rule removes no row
C14_TogglesRespected ==
    Cleaned =>
        /\ stats.suggested_rules.validate_school_year_dates = Given(FALSE) =>
              stats.after_rule3 = stats.after_rule2
        /\ stats.suggested_rules.remove_unfilled_no_substitute = Given(FALSE) =>
              stats.after_rule1 = stats.after_validation

\* C15: a raw table without one of the required columns does not get through
\* the cleaning stage: no cleaned table is returned for it
C15_MissingColumnFatal ==
    ~(required_columns \subseteq input.columns) => ~Cleaned

\* C18: the cleaned table does not depend on the answer of the model: it is
\* the table the cleaning stage returns for the same selected data and the
\* same filters when the answer is a text without rules
C18_SameRowsForAnyAnswer ==
    Cleaned =>
        df = process(selection_process(input, filters).df, blackboard_context_of(filters),
                     [kind |-> "text"], call.ns_only).df

----------------------------------------------------------------------------
(* Claims: rating parameters outside their bounds (SpecParams) *)

OutOfBound(inputs) ==
    \/ inputs.deductible < 0
    \/ inputs.cc_days < 0
    \/ inputs.replacement_cost < 0
    \/ inputs.ark_commission_rate < 0 \/ inputs.ark_commission_rate > One
    \/ inputs.abcover_commission_rate < 0 \/ inputs.abcover_commission_rate > One

\* C17: a rating call with a parameter outside its bound (a negative
\* deductible, cc_days or replacement cost, a commission rate outside [0,1])
\* returns no rating result: it ends without a total premium
C17_OutOfBoundRejected ==
    (Len(trace) = 2 /\ OutOfBound(rating_inputs)) => results.status # "ok"

----------------------------------------------------------------------------
(* Claims: the rollup, the aggregation and the two rating agents (SpecRate, *)
(* SpecKeys)                                                               *)

\* C21: the overall totals of the rating result are the sums over the school
\* years: overall_total_absences is the sum of the per-year total_absences,
\* overall_total_replacement_cost is the sum of the per-year
\* total_replacement_cost, and overall_total_absences times replacement_cost
\* is overall_total_replacement_cost
C21_OverallMatchesYears ==
    LLMRated =>
        LET years == results.per_school_year_metrics IN
        /\ results.overall_total_absences =
              SeriesSum([y \in DOMAIN years |-> years[y].total_absences])
        /\ results.overall_total_replacement_cost =
              SeriesSum([y \in DOMAIN years |-> years[y].total_replacement_cost])
        /\ FMul(results.overall_total_absences, results.replacement_cost) =
              results.overall_total_replacement_cost


\* the orchestrator has built the aggregate table
Aggregated == trace # <<>>

\* the (School Year, Employee Identifier) pairs of the rows of a table
PairsOf(rows) ==
    {<<rows[i]["School Year"], rows[i]["Employee Identifier"]>> : i \in 1..Len(rows)}

\* C26: aggregation conserves days: the aggregate table has one row for each
\* (School Year, Employee Identifier) pair of the cleaned table and no two
\* rows for one pair, each Total_Days is the sum of the Absence_Days of the
\* rows of its pair, and the Total_Days add up to the Absence_Days of all the
\* cleaned rows, those without an identifier or a school year included
C26_AggregationConserves ==
    Aggregated =>
        /\ PairsOf(teacher_days.rows) = PairsOf(df.rows)
        /\ Cardinality(PairsOf(teacher_days.rows)) = Len(teacher_days.rows)
        /\ \A n \in 1..Len(teacher_days.rows) :
              LET mine(r) == /\ r["School Year"] = teacher_days.rows[n]["School Year"]
                             /\ r["Employee Identifier"] =
                                    teacher_days.rows[n]["Employee Identifier"]
              IN  teacher_days.rows[n]["Total_Days"] =
                      Num(ColumnSum(SelectSeq(df.rows, mine), "Absence_Days"))
        /\ ColumnSum(teacher_days.rows, "Total_Days") = ColumnSum(df.rows, "Absence_Days")


\* the Total_Days of employee e over every row of the aggregate table,
\* whatever the school year
DaysOverAllYears(e) ==
    LET mine(r) == r["Employee Identifier"] = e
    IN  ColumnSum(SelectSeq(teacher_days.rows, mine), "Total_Days")

EmployeesOf(rows) ==
    {rows[i]["Employee Identifier"] : i \in 1..Len(rows)} \ {NA}

\* the most days employee e has in one school year
InOneYearAtMost(e, days) ==
    \A n \in 1..Len(teacher_days.rows) :
        teacher_days.rows[n]["Employee Identifier"] = e =>
            teacher_days.rows[n]["Total_Days"].v <= days

\* C27: both rating agents classify an employee by the days summed over all
\* the school years of the data: the staff in the coverage range are the
\* employees whose days over all years are above the deductible and at most
\* deductible + cc_days, the high claimants those above deductible + cc_days
C27_TiersOverAllYears ==
    (LLMRated \/ PlainRated) =>
        /\ results.num_staff_cc_range =
              Cardinality({e \in EmployeesOf(teacher_days.rows) :
                              DaysOverAllYears(e) > Deductible /\ DaysOverAllYears(e) <= Ceiling})
        /\ results.num_high_claimant =
              Cardinality({e \in EmployeesOf(teacher_days.rows) : DaysOverAllYears(e) > Ceiling})

\* C27 witness: E1 stays at or below the deductible in each of two school
\* years and is in the coverage range with the days of both
C27_Witness ==
    /\ LLMRated
    /\ Len(teacher_days.rows) = 2
    /\ InOneYearAtMost(Employee("E1"), Deductible)
    /\ DaysOverAllYears(Employee("E1")) > Deductible
    /\ results.num_staff_cc_range = 1


\* what RatingEngineAgentLLM.process returns for the table and the parameters
\* of the state when the model answers a text
LLMResultsHere ==
    calculate_with_reasoning(teacher_days, df, rating_inputs, NoApproach, [kind |-> "text"])

\* C28: the two rating agents agree: for the same cleaned table and the same
\* parameters RatingEngineAgent.process returns the staff counts, the days,
\* the costs, the commissions and the premium of RatingEngineAgentLLM.process
C28_AgentsAgree ==
    PlainRated =>
        /\ results.num_staff_cc_range  = LLMResultsHere.num_staff_cc_range
        /\ results.total_cc_days       = LLMResultsHere.total_cc_days
        /\ results.replacement_cost_cc = LLMResultsHere.replacement_cost_cc
        /\ results.num_high_claimant   = LLMResultsHere.num_high_claimant
        /\ results.excess_days         = LLMResultsHere.excess_days
        /\ results.high_claimant_cost  = LLMResultsHere.high_claimant_cost
        /\ results.ark_commission      = LLMResultsHere.ark_commission
        /\ results.abcover_commission  = LLMResultsHere.abcover_commission
        /\ results.total_premium       = LLMResultsHere.total_premium

----------------------------------------------------------------------------
(* Claims: the report and the frame of the cleaning stage (SpecPipeline) *)

\* C24: the counts of the cleaning report never grow from one step to the
\* next: original_rows >= after_validation >= after_rule1 >= after_rule2 >=
\* after_rule3 = final_rows, and rows_removed = original_rows - final_rows
C24_CountsChain ==
    Cleaned =>
        /\ stats.original_rows >= stats.after_validation
        /\ stats.after_validation >= stats.after_rule1
        /\ stats.after_rule1 >= stats.after_rule2
        /\ stats.after_rule2 >= stats.after_rule3
        /\ stats.after_rule3 = stats.final_rows
        /\ stats.final_rows = Len(df.rows)
        /\ stats.rows_removed = stats.original_rows - stats.final_rows

\* C24 witness: of two rows rule 1 drops one and rule 3 the other
C24_Witness ==
    /\ Cleaned
    /\ stats.original_rows = 2
    /\ stats.after_rule1 = 1
    /\ stats.after_rule2 = 1
    /\ stats.after_rule3 = 0
    /\ stats.rows_removed = 2


\* the table the clean node hands to the cleaning agent
SelectedData == selection_process(input, filters).df

\* a row without the columns the cleaning stage may rewrite
Untouched(row) ==
    [c \in (DOMAIN row) \ {"Date", "Duration", "Absence_Days"} |-> row[c]]

\* q is p with some rows left out, the others in their order, and equal to
\* them outside Date, Duration and Absence_Days
IsSubSequence(q, p) ==
    \E at \in [1..Len(q) -> 1..Len(p)] :
        /\ \A i, j \in 1..Len(q) : i < j => at[i] < at[j]
        /\ \A i \in 1..Len(q) : Untouched(q[i]) = Untouched(p[at[i]])

\* C30: the cleaned table is the table handed to the cleaning stage with
\* some rows left out: it has every column of that table, unknown ones
\* included, its rows are rows of that table in their order, and only the
\* cells of Date, Duration and Absence_Days differ; no step changes the table
\* the caller gave
PassedThrough ==
    Cleaned =>
        /\ SelectedData.columns \subseteq df.columns
        /\ df.columns \subseteq SelectedData.columns \cup {"Absence_Days"}
        /\ IsSubSequence(df.rows, SelectedData.rows)

----------------------------------------------------------------------------
(* Claims: the order of the rules (SpecOrder) *)

\* the rules applied so far
RulesApplied == {trace[i] : i \in 1..Len(trace)}

\* the input table after rule 1, rule 2 and rule 3 in this order, each once,
\* the rules outside S left out
InFixedOrder(S) ==
    LET t1 == IF "rule1" \in S
              THEN apply_rule1_llm(input, call.parameters.should_apply1) ELSE input
        t2 == IF "rule2" \in S
              THEN apply_rule2_llm(t1, call.parameters.employee_types_to_keep) ELSE t1
    IN  IF "rule3" \in S
        THEN apply_rule3(t2, call.parameters.should_apply3, call.ns_only) ELSE t2

\* C23: the rows the rules leave depend neither on their order nor on how
\* often each is applied: after any sequence of rule applications the table
\* is the one that rule 1, rule 2, rule 3 in this order, each once, give for
\* the rules of the sequence
C23_OrderFree == df = InFixedOrder(RulesApplied)

\* C23 witness: rule 3, then rule 2, then rule 1, every rule switched on, and
\* rows dropped on the way
C23_Witness ==
    /\ trace = <<"rule3", "rule2", "rule1">>
    /\ call.parameters.should_apply1
    /\ call.parameters.should_apply3
    /\ call.parameters.employee_types_to_keep # <<>>
    /\ Len(input.rows) = 2
    /\ Len(df.rows) = 1

----------------------------------------------------------------------------
(* Claims: the orchestrator (SpecGraph) *)

\* the last node called was calculate, and it has rated the cleaned table
CalculateDone ==
    /\ trace # <<>>
    /\ trace[Len(trace)] = [node |-> "calculate", outcome |-> "done"]

\* C22: in _calculate_node the Absence_Days of every row that is aggregated
\* is the type-based value the cleaning stage has computed for that row: no
\* other column of the cleaned table is renamed into it or added onto it, so
\* the totals per employee are the sums of the type-based values.
C22_TypeBasedDaysAggregated ==
    (CalculateDone /\ "Absence_Days" \in stats.cleaned_data.columns) =>
        /\ Len(df.rows) = Len(stats.cleaned_data.rows)
        /\ \A i \in 1..Len(df.rows) :
              df.rows[i]["Absence_Days"] = stats.cleaned_data.rows[i]["Absence_Days"]
        /\ SumSeq([i \in 1..Len(teacher_days.rows) |-> teacher_days.rows[i]["Total_Days"].v])
              = ColumnSum(stats.cleaned_data.rows, "Absence_Days")

\* the steps of the nodes that have done their step, in the order of the calls
StepsDone ==
    LET done == SelectSeq(trace, LAMBDA called : called.outcome = "done")
    IN  [i \in 1..Len(done) |-> done[i].node]

\* C29: processing_history is append-only: after any sequence of node calls,
\* by the graph or one at a time by the app, it holds exactly one entry for
\* each step that was done, in the order of execution; a skipped node adds
\* nothing, and no earlier entry is removed, overwritten or duplicated.
C29_HistoryAppendOnly ==
    [i \in 1..Len(stats.processing_history) |-> stats.processing_history[i].step] = StepsDone

\* q is the beginning of p
IsPrefix(q, p) == Len(q) <= Len(p) /\ \A i \in 1..Len(q) : q[i] = p[i]

\* the steps of DataCleaningAgentLLM.process applied one after the other to
\* the selected table, with the rules the agent falls back on
StagesInOrder(t, f, ns_only) ==
    LET validated == validate_data_format(t).df
        kept1     == apply_rule1_llm(validated, TRUE)
        kept2     == IF skip_rule2(blackboard_context_of(f)) THEN kept1
                     ELSE apply_rule2_llm(kept1, teacher_types)
        kept3     == apply_rule3(kept2, TRUE, ns_only)
    IN  calculate_absence_days_llm(kept3)

\* C25: the stages run in one fixed order, each at most once in a run of the
\* graph: the nodes called so far are the beginning of upload, select, clean,
\* calculate; a node that has not been called yet has left no output, so no
\* stage sees the output of a later one; the cleaned table is the day
\* computation applied to what rule 3 kept of what rule 2 kept of what rule 1
\* kept of the validated table; and the rating is computed from the aggregate
\* per (School Year, Employee Identifier) of the table of this run.
C25_StagesInFixedOrder ==
    call.mode = "run" =>
        /\ IsPrefix([i \in 1..Len(trace) |-> trace[i].node],
                    <<"upload", "select", "clean", "calculate">>)
        /\ Len(trace) < 1 => stats.raw_data = NoTable
        /\ Len(trace) < 2 => stats.selected_data = NoTable
        /\ Len(trace) < 3 => stats.cleaned_data = NoTable
        /\ Len(trace) < 4 => (stats.rating_results = NoResults /\ teacher_days = NoTable)
        /\ (Len(trace) >= 3 /\ trace[3].outcome = "done") =>
              \A ns_only \in BOOLEAN :
                  stats.cleaned_data = StagesInOrder(stats.selected_data, filters, ns_only)
        /\ CalculateDone =>
              /\ teacher_days = groupby_school_year_employee(df)
              /\ results.total_teachers =
                    Cardinality({teacher_days.rows[i]["Employee Identifier"] :
                                    i \in 1..Len(teacher_days.rows)})

C25_Witness ==
    /\ call.mode = "run"
    /\ call.node = "END"
    /\ [i \in 1..Len(trace) |-> trace[i].outcome] = <<"done", "done", "done", "done">>
    /\ Len(stats.selected_data.rows) = 2
    /\ Len(stats.cleaned_data.rows) = 1
    /\ Len(teacher_days.rows) = 1
    /\ results.status = "ok"

====
